---- MODULE Spec2Model ----
(***************************************************************************)
(* Control plane of the OpenHands Kubernetes remote runtime: the State     *)
(* Store (pkg/state), the request handlers (pkg/api), the orchestrator     *)
(* adapter (pkg/k8s), the reconciler loop of main, the idle reaper and the  *)
(* cleanup service (pkg/cleanup).                                          *)
(*                                                                         *)
(* Records are Go pointers to state.RuntimeInfo: the two indices of the     *)
(* store and the handlers' local variables hold handles into `heap`, and a *)
(* handler's field assignment changes the object every holder sees.        *)
(***************************************************************************)
EXTENDS Integers, FiniteSets, Sequences, TLC

\* ------------------------------------------------------------------ bounds
MaxRuntimes == 2          \* generateID is called at most this often
MaxObjs == 4              \* RuntimeInfo objects alive at the same time
MaxFaults == 1            \* orchestrator API calls that fail with a real error
MaxBatch == 2             \* entries of a batch-conversations request
MaxBatchActivities == 3   \* requests, ticks and restarts of one run with batches
MaxContainers == 2        \* container statuses of a pod
MaxTimeout == 4           \* the timeout of a WaitForPodReady call, in seconds
MaxShutdownActivities == 3 \* requests and ticks of one life of the process
MaxUndoFaults == 2        \* the same, where a call and the call that undoes it may both fail
MaxUndoActivities == 3    \* requests, ticks and restarts of one such run
MaxInFlight == 2          \* requests and background ticks running at the same time
MaxActivities == 3        \* requests, ticks and restarts of one concurrent run
MaxRoutedActivities == 3  \* requests, ticks and restarts of one run behind the router
MaxSerialActivities == 4  \* requests, ticks and restarts of one serial run
MaxTimedActivities == 3   \* the same, of a serial run in which time passes
MaxLifecycleActivities == 4 \* requests of one concurrent run of the lifecycle calls
MaxReaperActivities == 3  \* requests and ticks of one serial run timed by the reaper's clock
MaxRaceActivities == 3    \* requests and ticks of one concurrent run in which time passes
MaxTime == 3              \* the clock runs from 1 to this

\* CleanupFailedThresholdMin and CleanupIdleThresholdMin, in units of the clock
\* (the defaults are 60 and 1440 minutes: the failed threshold is the shorter).
FailedThreshold == 1
IdleThreshold == 2
IdleTimeout == 1

Sessions == {"s1", "s2"}  \* session_id values the callers use
NoKey == ""               \* a request without the X-API-Key header
APIKey == "k1"            \* the configured management key
Keys == {NoKey, APIKey, "k2"}
Clients == {"c1", "c2"}   \* request workers of the HTTP server
RuntimeIDs == 1..MaxRuntimes
Handles == 1..MaxObjs

\* ------------------------------------------------------------------ values
StatusRunning == "running"
StatusPaused == "paused"
StatusStopped == "stopped"
StatusPending == "pending"

PodStatusPending == "pending"
PodStatusRunning == "running"
PodStatusReady == "ready"
PodStatusFailed == "failed"
PodStatusCrashLoopBackOff == "crashloopbackoff"
PodStatusNotFound == "not found"
PodStatusUnknown == "unknown"

\* The nil *RuntimeInfo / a free slot of the heap.
NoRec == [rid |-> 0, sid |-> "", key |-> 0, status |-> "", podStatus |-> "",
          createdAt |-> 0, lastActivity |-> 0,
          snap |-> <<>>]   \* snap: history, the service and ingress uid when a running
                           \*   record was paused, until a resume or a stop takes it up
\* A creation timestamp the orchestrator has not set (the zero time).
NoStamp == 0
\* No pod of that name in the namespace.
NoPod == [sid |-> "", key |-> 0, phase |-> "absent", created |-> 0]
\* A pod of the API server: whether the Get finds it, its Status.Phase, and per
\* container status the Ready flag and the reason of State.Waiting ("" when the
\* container is not waiting).
NoPodStatus == [found |-> FALSE, phase |-> "", containers |-> <<>>]
NoProbe == [pod |-> NoPodStatus, status |-> ""]
\* WaitForPodReady not called. Of a call: the timeout and the time since the
\* call, in seconds; tick: a value waits in ticker.C; result: what the call
\* returned; seen is history: what each poll got from GetPodStatus.
NoWait == [pc |-> "", timeout |-> 0, elapsed |-> 0, tick |-> FALSE,
           seen |-> <<>>, result |-> ""]
\* main blocked on the signal channel, everything started. expired: the
\* shutdown context has timed out; cleaning is off once the cleanup service's
\* stopChan is closed; panicked: the process ended in a Go panic. waited and
\* killed are history: a handler was in flight when the listener closed, and
\* when the process exited.
Serving == [pc |-> "serving", listening |-> TRUE, reconciling |-> TRUE,
            reaping |-> TRUE, cleaning |-> TRUE, expired |-> FALSE,
            panicked |-> FALSE, waited |-> FALSE, killed |-> FALSE]
\* No fan-out: of a batch request, the capacity of resultsCh and what is in
\* it, how often it was closed, and where each goroutine is ("run", "sent" once
\* it has sent its result, "done" after wg.Done). sends and late are history:
\* the sends per entry, and whether one came after a close.
NoFan == [cap |-> 0, chan |-> <<>>, closes |-> 0, tasks |-> <<>>, sends |-> <<>>,
          late |-> FALSE]
\* A request worker between requests.
IdleClient == [pc |-> "idle", op |-> "", apiKey |-> "", sid |-> "", rid |-> 0, ptr |-> 0,
               errs |-> FALSE, calls |-> 0, hit |-> 0, pre |-> <<>>, tried |-> <<>>,
               code |-> 0, outRid |-> 0, outKey |-> 0, outStatus |-> "",
               outPodStatus |-> "", want |-> <<>>, ups |-> <<>>, got |-> <<>>,
               outBody |-> [written |-> FALSE, entries |-> <<>>], fan |-> NoFan]
IdleReconciler == [pc |-> "idle", list |-> {}, listed |-> {}, added |-> 0]
\* The idle reaper between two ticks; at is the time.Now() of the tick.
IdleReaper == [pc |-> "idle", snap |-> {}, ptr |-> 0, errs |-> FALSE, at |-> 0]
\* The cleanup service between two ticks. reason is the verdict of
\* shouldCleanupRuntime on the record at hand; idleFor, due, live and age are
\* history: how long that record had seen no activity, whether it was then due,
\* the status its pod then had and how old the record then was.
IdleCleaner == [pc |-> "idle", snap |-> {}, ptr |-> 0, errs |-> FALSE,
                reason |-> "", idleFor |-> 0, due |-> FALSE,
                live |-> "", age |-> 0]
\* Another replica of the service: its own store, filled by its own sweeps.
\* at is history: how many activities had begun when it last swept.
IdlePeer == [byID |-> [r \in RuntimeIDs |-> NoRec], at |-> 0]

VARIABLES
    heap,              \* Handles -> RuntimeInfo object (NoRec: free)
    runtimeByID,       \* StateManager.runtimeByID: runtime_id -> handle, 0 absent
    runtimeBySession,  \* StateManager.runtimeBySession: session_id -> handle, 0 absent
    pods,              \* orchestrator: pod runtime-{id}, by id
    services,          \* orchestrator: service runtime-{id}: uid > 0 present,
                       \*   0 never created, -uid deleted
    ingresses,         \* orchestrator: ingress runtime-{id}, same encoding
    nextID,            \* the next value generateID returns
    client,            \* per request worker: position, locals, response
    reconciler,        \* the reconcile goroutine of main
    reaper,            \* the idle reaper goroutine
    cleaner,           \* the cleanup service goroutine
    peer,              \* a second replica over the same orchestrator
    now,               \* the wall clock, in units of the thresholds
    faults,            \* orchestrator API calls that failed so far
    workers,           \* how many requests and background ticks may run at once
    budget,            \* how many requests, ticks and restarts a run may begin
    faultCap,          \* how many orchestrator API calls of a run may fail
    life,              \* where main is between start and exit, and which of
                       \*   its loops and listeners are still on (ShutdownSpec)
    probe,             \* a pod as the API server describes it, and the status
                       \*   GetPodStatus made of it (StatusSpec)
    wait,              \* one call of WaitForPodReady (WaitSpec)
    begun,             \* requests, ticks and restarts begun so far
    everPod,           \* history: ids whose pod was ever created
    issued             \* history: <<session, runtime_id, key>> of every start
                       \*   that created a sandbox and answered 200

vars == <<heap, runtimeByID, runtimeBySession, pods, services, ingresses, nextID,
          client, reconciler, reaper, cleaner, peer, now, faults,
          workers, budget, faultCap, probe, wait, life, begun, everPod, issued>>

\* ------------------------------------------------------------------ heap
Range(f) == {f[x] : x \in DOMAIN f}

\* Handles some index or some local variable still points to.
LiveOf(byID, bySession, cl, rp, cn) ==
    (Range(byID) \cup Range(bySession) \cup {cl[c].ptr : c \in Clients}
       \cup rp.snap \cup {rp.ptr} \cup cn.snap \cup {cn.ptr}) \ {0}

\* Garbage collection: an object nothing points to is gone.
Collect(hp, live) == [h \in Handles |-> IF h \in live THEN hp[h] ELSE NoRec]

Live == LiveOf(runtimeByID, runtimeBySession, client, reaper, cleaner)
FreeHandles == Handles \ Live
CanAlloc == FreeHandles # {}
NewHandle == CHOOSE h \in FreeHandles : \A g \in FreeHandles : h <= g

\* heap' from the heap the step wrote, once the step's other variables are set.
SetHeap(hp) ==
    heap' = Collect(hp, LiveOf(runtimeByID', runtimeBySession', client', reaper',
                               cleaner'))

\* ------------------------------------------------------------------ State Store
\* Variant: a session lookup that never finds the record.
SessionLookupMisses(sid) == 0

GetRuntimeByID(rid) == runtimeByID[rid]
GetRuntimeBySessionID(sid) == runtimeBySession[sid]

\* Variant: an update that stores the record whether or not it is there.
UpdateRuntimeUpserts(h, info) ==
    /\ runtimeByID' = [runtimeByID EXCEPT ![info.rid] = h]
    /\ runtimeBySession' = [runtimeBySession EXCEPT ![info.sid] = h]

AddRuntime(h, info) ==
    /\ runtimeByID' = [runtimeByID EXCEPT ![info.rid] = h]
    /\ runtimeBySession' = [runtimeBySession EXCEPT ![info.sid] = h]

UpdateRuntime(h, info) ==
    IF runtimeByID[info.rid] = 0
    THEN UNCHANGED <<runtimeByID, runtimeBySession>>
    ELSE /\ runtimeByID' = [runtimeByID EXCEPT ![info.rid] = h]
         /\ runtimeBySession' = [runtimeBySession EXCEPT ![info.sid] = h]

\* Variant: a delete that clears the runtime_id index only.
DeleteRuntimeByIDOnly(rid) ==
    /\ runtimeByID' = [runtimeByID EXCEPT ![rid] = 0]
    /\ UNCHANGED runtimeBySession

DeleteRuntime(rid) ==
    IF runtimeByID[rid] = 0
    THEN UNCHANGED <<runtimeByID, runtimeBySession>>
    ELSE /\ runtimeByID' = [runtimeByID EXCEPT ![rid] = 0]
         /\ runtimeBySession' =
                [runtimeBySession EXCEPT ![heap[runtimeByID[rid]].sid] = 0]

\* Records the store holds, through either index.
Stored == (Range(runtimeByID) \cup Range(runtimeBySession)) \ {0}

\* ------------------------------------------------------------------ orchestrator
PodExists(rid) == pods[rid].phase # "absent"
Present(uid) == uid > 0
NextUid(uid) == IF uid < 0 THEN 1 - uid ELSE uid + 1

\* GetPodStatus without an API error: the live status of pod runtime-{rid}.
GetPodStatus(rid) ==
    IF ~PodExists(rid) THEN PodStatusNotFound ELSE pods[rid].phase

\* Variant: a rebuild that does not read the key from the pod's environment.
buildRuntimeInfoWithoutKey(rid, sid, key, podStatus) ==
    [rid |-> rid, sid |-> sid, key |-> 0, status |-> StatusRunning,
     podStatus |-> podStatus,
     createdAt |-> IF pods[rid].created = NoStamp THEN now ELSE pods[rid].created,
     lastActivity |-> now, snap |-> <<>>]

\* Variant: a rebuild that takes the time of the discovery for the creation.
buildRuntimeInfoBornNow(rid, sid, key, podStatus) ==
    [rid |-> rid, sid |-> sid, key |-> key, status |-> StatusRunning,
     podStatus |-> podStatus, createdAt |-> now, lastActivity |-> now,
     snap |-> <<>>]

\* buildRuntimeInfoFromPod: the record rebuilt from a pod's labels and env.
buildRuntimeInfoFromPod(rid, sid, key, podStatus) ==
    [rid |-> rid, sid |-> sid, key |-> key, status |-> StatusRunning,
     podStatus |-> podStatus,
     createdAt |-> IF pods[rid].created = NoStamp THEN now ELSE pods[rid].created,
     lastActivity |-> now, snap |-> <<>>]

\* ------------------------------------------------------------------ Init
InitProcess(w, b, f) ==
    /\ heap = [h \in Handles |-> NoRec]
    /\ runtimeByID = [r \in RuntimeIDs |-> 0]
    /\ runtimeBySession = [s \in Sessions |-> 0]
    /\ pods = [r \in RuntimeIDs |-> NoPod]
    /\ services = [r \in RuntimeIDs |-> 0]
    /\ ingresses = [r \in RuntimeIDs |-> 0]
    /\ nextID = 1
    /\ client = [c \in Clients |-> IdleClient]
    /\ reconciler = IdleReconciler
    /\ reaper = IdleReaper
    /\ cleaner = IdleCleaner
    /\ peer = IdlePeer
    /\ now = 1
    /\ faults = 0
    /\ workers = w
    /\ budget = b
    /\ faultCap = f
    /\ life = Serving
    /\ begun = 0
    /\ everPod = {}
    /\ issued = {}

\* The process alone: no pod description is looked at.
InitWith(w, b, f) == InitProcess(w, b, f) /\ probe = NoProbe /\ wait = NoWait

Init == InitWith(MaxInFlight, MaxActivities, MaxFaults)

\* A worker is free for a request, and the server's listener can hand it one.
Quiet(c) == client[c].pc = "idle" /\ life.listening

\* What no step of a handler or of a loop of this process changes, but for the
\* count of activities begun.
run == <<workers, budget, faultCap, probe, wait, life, begun, peer, now>>

\* A response is handed over before anything else moves.
NoneDone == \A c \in Clients : client[c].pc # "done"

\* Requests and background ticks that have started and not ended.
InFlight ==
    Cardinality({c \in Clients : client[c].pc # "idle"})
        + (IF reconciler.pc = "idle" THEN 0 ELSE 1)
        + (IF reaper.pc = "idle" THEN 0 ELSE 1)
        + (IF cleaner.pc = "idle" THEN 0 ELSE 1)

\* A new activity begins while fewer than max are in flight.
Admitted(max) ==
    /\ NoneDone
    /\ InFlight < max
    /\ begun < budget
    /\ begun' = begun + 1
    /\ UNCHANGED <<workers, budget, faultCap, probe, wait, life, peer, now>>

\* A worker takes the next request, which came with X-API-Key k: its locals
\* start afresh.
Begin(c, k, op, sid, rid, pc) ==
    [IdleClient EXCEPT !.pc = pc, !.op = op, !.apiKey = k, !.sid = sid, !.rid = rid]

\* The path of a request, segment by segment: /start, /runtime/{runtime_id},
\* /sessions/{session_id}, /sandbox/{runtime_id}; runtime_id 0 stands for the
\* empty segment.
Segment(r) == IF r = 0 THEN "" ELSE ToString(r)
Path(op, sid, rid) ==
    CASE op = "get" -> <<"runtime", Segment(rid)>>
      [] op = "session" -> <<"sessions", sid>>
      [] op = "proxy" -> <<"sandbox", Segment(rid)>>
      [] op = "batch" -> <<"sessions", "batch-conversations">>
      [] OTHER -> <<op>>

\* pathIsSandboxProxy: the path starts with /sandbox/ and something follows.
pathIsSandboxProxy(path) ==
    /\ Len(path) >= 2
    /\ path[1] = "sandbox"
    /\ Len(path) > 2 \/ path[2] # ""

\* Variant: a middleware that lets a request without a key through.
AuthMiddlewareAllowsNoKey(path, k) ==
    pathIsSandboxProxy(path) \/ k = NoKey \/ k = APIKey

\* AuthMiddleware: TRUE when the request is passed on to its handler. Sandbox
\* paths go through; any other path needs a non-empty X-API-Key equal to the
\* configured key.
AuthMiddleware(path, k) ==
    pathIsSandboxProxy(path) \/ ~(k = NoKey \/ k # APIKey)

\* The worker writes its response.
Respond(cl, code, info) ==
    [cl EXCEPT !.pc = "done", !.code = code, !.outRid = info.rid,
               !.outKey = info.key, !.outStatus = info.status,
               !.outPodStatus = info.podStatus]

orch == <<pods, services, ingresses, everPod>>

\* An orchestrator call succeeds, or fails with an error other than not-found.
Outcomes == IF faults < faultCap THEN BOOLEAN ELSE {TRUE}
Fault(ok) == faults' = IF ok THEN faults ELSE faults + 1
store == <<runtimeByID, runtimeBySession>>
background == <<reconciler, reaper, cleaner>>

\* ------------------------------------------------------------------ orchestrator calls
\* What a delete call came back with: the object deleted, a
\* not-found error because there was none, or another error.
Outcome(ok, present) ==
    IF ~ok THEN "error" ELSE IF present THEN "deleted" ELSE "not_found"

\* Variants: API calls the server acknowledges and does not carry out.
PodNotCreated(info) == UNCHANGED <<pods, everPod>>
PodKept(rid) == UNCHANGED pods
IngressKept(rid) == UNCHANGED ingresses
ServiceKept(rid) == UNCHANGED services

\* Pods.Create of createPod: the pod carries the labels and the key of the record.
PodCreated(info) ==
    /\ pods' = [pods EXCEPT ![info.rid] =
                   [sid |-> info.sid, key |-> info.key, phase |-> PodStatusPending,
                    created |-> now]]
    /\ everPod' = everPod \cup {info.rid}

\* Pods.Delete of DeletePod, when the API server carries it out.
PodDeleted(rid) == pods' = [pods EXCEPT ![rid] = NoPod]

\* Services.Create / Services.Delete, Ingresses.Create / Ingresses.Delete.
ServiceCreated(rid) == services' = [services EXCEPT ![rid] = NextUid(@)]
ServiceDeleted(rid) == services' = [services EXCEPT ![rid] = IF @ > 0 THEN -@ ELSE @]
IngressCreated(rid) == ingresses' = [ingresses EXCEPT ![rid] = NextUid(@)]
IngressDeleted(rid) == ingresses' = [ingresses EXCEPT ![rid] = IF @ > 0 THEN -@ ELSE @]

\* ------------------------------------------------------------------ POST /start
\* generateID / generateSessionAPIKey: values no earlier call returned.
generateID == nextID
generateSessionAPIKey == nextID

\* StartRuntime up to the session lookup: an existing record is returned as it is.
StartLookup(c, s) ==
    \E k \in Keys :
    /\ Admitted(workers)
    /\ Quiet(c)
    /\ AuthMiddleware(Path("start", s, 0), k)
    /\ GetRuntimeBySessionID(s) # 0 \/ (nextID <= MaxRuntimes /\ CanAlloc)
    /\ LET h == GetRuntimeBySessionID(s)
           seen == IF runtimeBySession[s] = 0 THEN 0 ELSE heap[runtimeBySession[s]].rid
       IN client' = [client EXCEPT ![c] =
              [Begin(c, k, "start", s, 0, IF h # 0 THEN "start_existing" ELSE "start_add")
                  EXCEPT !.ptr = h, !.hit = seen]]
    /\ UNCHANGED <<store, orch, nextID, faults, background, issued>>
    /\ SetHeap(heap)

\* The response for the existing record is built from the pointer.
StartExisting(c) ==
    /\ NoneDone
    /\ UNCHANGED run
    /\ client[c].pc = "start_existing"
    /\ client' = [client EXCEPT ![c] = Respond(@, 200, heap[@.ptr])]
    /\ UNCHANGED <<store, orch, nextID, faults, background, issued>>
    /\ SetHeap(heap)

\* A new pending record goes into the store before anything is created.
StartAdd(c) ==
    /\ NoneDone
    /\ UNCHANGED run
    /\ client[c].pc = "start_add"
    /\ nextID <= MaxRuntimes
    /\ CanAlloc
    /\ LET h == NewHandle
           info == [rid |-> generateID, sid |-> client[c].sid,
                    key |-> generateSessionAPIKey, status |-> StatusPending,
                    podStatus |-> PodStatusPending,
                    createdAt |-> now, lastActivity |-> now, snap |-> <<>>]
       IN /\ AddRuntime(h, info)
          /\ client' = [client EXCEPT ![c].pc = "start_pod", ![c].ptr = h,
                                      ![c].rid = info.rid]
          /\ nextID' = nextID + 1
          /\ UNCHANGED faults
          /\ UNCHANGED <<orch, background, issued>>
          /\ SetHeap([heap EXCEPT ![h] = info])

\* CreateSandbox: createPod.
StartCreatePod(c) ==
    /\ NoneDone
    /\ UNCHANGED run
    /\ client[c].pc = "start_pod"
    /\ \E ok \in Outcomes :
          /\ Fault(ok)
          /\ IF ok
             THEN /\ PodCreated(heap[client[c].ptr])
                  /\ client' = [client EXCEPT ![c].pc = "start_svc", ![c].calls = @ + 1]
                  /\ UNCHANGED <<services, ingresses>>
             ELSE /\ client' = [client EXCEPT ![c].pc = "start_rollback", ![c].calls = @ + 1]
                  /\ UNCHANGED orch
    /\ UNCHANGED <<store, nextID, background, issued>>
    /\ SetHeap(heap)

\* CreateSandbox: createService; on failure the pod is cleaned up.
StartCreateService(c) ==
    /\ NoneDone
    /\ UNCHANGED run
    /\ client[c].pc = "start_svc"
    /\ \E ok \in Outcomes :
          /\ Fault(ok)
          /\ IF ok
             THEN /\ ServiceCreated(client[c].rid)
                  /\ client' = [client EXCEPT ![c].pc = "start_ing", ![c].calls = @ + 1]
             ELSE /\ client' = [client EXCEPT ![c].pc = "start_undo_pod1", ![c].calls = @ + 1]
                  /\ UNCHANGED services
    /\ UNCHANGED <<store, pods, ingresses, everPod, nextID, background, issued>>
    /\ SetHeap(heap)

\* CreateSandbox: createIngress; on failure pod and service are cleaned up.
StartCreateIngress(c) ==
    /\ NoneDone
    /\ UNCHANGED run
    /\ client[c].pc = "start_ing"
    /\ \E ok \in Outcomes :
          /\ Fault(ok)
          /\ IF ok
             THEN /\ IngressCreated(client[c].rid)
                  /\ client' = [client EXCEPT ![c].pc = "start_setrun", ![c].calls = @ + 1]
             ELSE /\ client' = [client EXCEPT ![c].pc = "start_undo_pod2", ![c].calls = @ + 1]
                  /\ UNCHANGED ingresses
    /\ UNCHANGED <<store, pods, services, everPod, nextID, background, issued>>
    /\ SetHeap(heap)

\* The compensating DeletePod; its error is dropped.
StartUndoPod(c) ==
    /\ NoneDone
    /\ UNCHANGED run
    /\ client[c].pc \in {"start_undo_pod1", "start_undo_pod2"}
    /\ \E ok \in Outcomes :
          /\ Fault(ok)
          /\ IF ok THEN PodDeleted(client[c].rid) ELSE UNCHANGED pods
          /\ client' = [client EXCEPT
                 ![c].pc = IF @ = "start_undo_pod1" THEN "start_rollback"
                           ELSE "start_undo_svc",
                 ![c].tried = Append(@, <<"pod", Outcome(ok, PodExists(client[c].rid))>>)]
    /\ UNCHANGED <<store, services, ingresses, everPod, nextID, background, issued>>
    /\ SetHeap(heap)

\* The compensating DeleteService; its error is dropped.
StartUndoService(c) ==
    /\ NoneDone
    /\ UNCHANGED run
    /\ client[c].pc = "start_undo_svc"
    /\ \E ok \in Outcomes :
          /\ Fault(ok)
          /\ IF ok THEN ServiceDeleted(client[c].rid) ELSE UNCHANGED services
          /\ client' = [client EXCEPT
                 ![c].pc = "start_rollback",
                 ![c].tried = Append(@, <<"service",
                                  Outcome(ok, Present(services[client[c].rid]))>>)]
    /\ UNCHANGED <<store, pods, ingresses, everPod, nextID, background, issued>>
    /\ SetHeap(heap)

\* CreateSandbox failed: the record is removed and the error returned.
StartRollback(c) ==
    /\ NoneDone
    /\ UNCHANGED run
    /\ client[c].pc = "start_rollback"
    /\ DeleteRuntime(client[c].rid)
    /\ client' = [client EXCEPT ![c] = Respond(@, 500, heap[@.ptr])]
    /\ UNCHANGED <<orch, nextID, faults, background, issued>>
    /\ SetHeap(heap)

\* runtimeInfo.Status = types.StatusRunning, on the shared object.
StartSetRunning(c) ==
    /\ NoneDone
    /\ UNCHANGED run
    /\ client[c].pc = "start_setrun"
    /\ client' = [client EXCEPT ![c].pc = "start_update"]
    /\ UNCHANGED <<store, orch, nextID, faults, background, issued>>
    /\ SetHeap([heap EXCEPT ![client[c].ptr].status = StatusRunning])

\* UpdateRuntime (its error dropped), then the 200 response.
StartRespond(c) ==
    /\ NoneDone
    /\ UNCHANGED run
    /\ client[c].pc = "start_update"
    /\ UpdateRuntime(client[c].ptr, heap[client[c].ptr])
    /\ client' = [client EXCEPT ![c] = Respond(@, 200, heap[@.ptr])]
    /\ issued' = issued \cup {<<client[c].sid, client[c].rid, heap[client[c].ptr].key>>}
    /\ UNCHANGED <<orch, nextID, faults, background>>
    /\ SetHeap(heap)

StartRuntime(c) ==
    \/ \E s \in Sessions : StartLookup(c, s)
    \/ StartExisting(c)
    \/ StartAdd(c)
    \/ StartCreatePod(c)
    \/ StartCreateService(c)
    \/ StartCreateIngress(c)
    \/ StartUndoPod(c)
    \/ StartUndoService(c)
    \/ StartRollback(c)
    \/ StartSetRunning(c)
    \/ StartRespond(c)

\* ------------------------------------------------------------------ POST /stop
StopLookup(c, r) ==
    \E k \in Keys :
    /\ Admitted(workers)
    /\ Quiet(c)
    /\ AuthMiddleware(Path("stop", "", r), k)
    /\ LET h == GetRuntimeByID(r)
       IN client' = [client EXCEPT ![c] =
              IF h = 0
              THEN Respond(Begin(c, k, "stop", "", r, "done"), 404, NoRec)
              ELSE [Begin(c, k, "stop", "", r, "stop_ing") EXCEPT
                       !.ptr = h,
                       !.pre = <<heap[h].status,
                                 runtimeBySession[heap[h].sid] = h>>]]
    /\ UNCHANGED <<store, orch, nextID, faults, background, issued>>
    /\ SetHeap(IF GetRuntimeByID(r) = 0 THEN heap
               ELSE [heap EXCEPT ![GetRuntimeByID(r)].snap = <<>>])

\* Variant: a DeleteSandbox that gives up when the ingress cannot be deleted.
StopDeleteIngressGivesUp(c) ==
    /\ NoneDone
    /\ UNCHANGED run
    /\ client[c].pc = "stop_ing"
    /\ \E ok \in Outcomes :
          /\ Fault(ok)
          /\ IF ok
             THEN /\ IngressDeleted(heap[client[c].ptr].rid)
                  /\ client' = [client EXCEPT ![c].pc = "stop_svc",
                         ![c].tried = Append(@, <<"ingress",
                             Outcome(ok, Present(ingresses[heap[client[c].ptr].rid]))>>)]
             ELSE /\ client' = [client EXCEPT ![c] =
                         Respond([@ EXCEPT !.errs = TRUE,
                                   !.tried = Append(@, <<"ingress", "error">>)],
                                 500, heap[@.ptr])]
                  /\ UNCHANGED ingresses
    /\ UNCHANGED <<store, pods, services, everPod, nextID, background, issued>>
    /\ SetHeap(heap)

\* DeleteSandbox: DeleteIngress, not-found tolerated, another error collected.
\* tried is history: the delete calls made so far, each with its outcome.
StopDeleteIngress(c) ==
    /\ NoneDone
    /\ UNCHANGED run
    /\ client[c].pc = "stop_ing"
    /\ \E ok \in Outcomes :
          /\ Fault(ok)
          /\ IF ok
             THEN /\ IngressDeleted(heap[client[c].ptr].rid)
                  /\ client' = [client EXCEPT ![c].pc = "stop_svc",
                         ![c].tried = Append(@, <<"ingress",
                             Outcome(ok, Present(ingresses[heap[client[c].ptr].rid]))>>)]
             ELSE /\ client' = [client EXCEPT ![c].pc = "stop_svc", ![c].errs = TRUE,
                         ![c].tried = Append(@, <<"ingress", "error">>)]
                  /\ UNCHANGED ingresses
    /\ UNCHANGED <<store, pods, services, everPod, nextID, background, issued>>
    /\ SetHeap(heap)

\* DeleteSandbox: DeleteService.
StopDeleteService(c) ==
    /\ NoneDone
    /\ UNCHANGED run
    /\ client[c].pc = "stop_svc"
    /\ \E ok \in Outcomes :
          /\ Fault(ok)
          /\ IF ok
             THEN /\ ServiceDeleted(heap[client[c].ptr].rid)
                  /\ client' = [client EXCEPT ![c].pc = "stop_pod",
                         ![c].tried = Append(@, <<"service",
                             Outcome(ok, Present(services[heap[client[c].ptr].rid]))>>)]
             ELSE /\ client' = [client EXCEPT ![c].pc = "stop_pod", ![c].errs = TRUE,
                         ![c].tried = Append(@, <<"service", "error">>)]
                  /\ UNCHANGED services
    /\ UNCHANGED <<store, pods, ingresses, everPod, nextID, background, issued>>
    /\ SetHeap(heap)

\* Variant: a stop that fails and takes the record out of the store all the same.
StopDeletePodDropsRecord(c) ==
    /\ NoneDone
    /\ UNCHANGED run
    /\ client[c].pc = "stop_pod"
    /\ \E ok \in Outcomes :
          /\ Fault(ok)
          /\ LET failed == client[c].errs \/ ~ok
                 call == <<"pod", Outcome(ok, PodExists(heap[client[c].ptr].rid))>>
             IN /\ IF ok THEN PodDeleted(heap[client[c].ptr].rid) ELSE UNCHANGED pods
                /\ IF failed THEN DeleteRuntime(client[c].rid) ELSE UNCHANGED store
                /\ client' = [client EXCEPT ![c] =
                       IF failed
                       THEN Respond([@ EXCEPT !.errs = TRUE,
                                              !.tried = Append(@, call)],
                                    500, heap[@.ptr])
                       ELSE [@ EXCEPT !.pc = "stop_setstopped",
                                      !.tried = Append(@, call)]]
    /\ UNCHANGED <<services, ingresses, everPod, nextID, background, issued>>
    /\ SetHeap(heap)

\* DeleteSandbox: DeletePod, then its verdict: any collected error fails the stop.
StopDeletePod(c) ==
    /\ NoneDone
    /\ UNCHANGED run
    /\ client[c].pc = "stop_pod"
    /\ \E ok \in Outcomes :
          /\ Fault(ok)
          /\ LET failed == client[c].errs \/ ~ok
                 call == <<"pod", Outcome(ok, PodExists(heap[client[c].ptr].rid))>>
             IN /\ IF ok THEN PodDeleted(heap[client[c].ptr].rid) ELSE UNCHANGED pods
                /\ client' = [client EXCEPT ![c] =
                       IF failed
                       THEN Respond([@ EXCEPT !.errs = TRUE,
                                              !.tried = Append(@, call)],
                                    500, heap[@.ptr])
                       ELSE [@ EXCEPT !.pc = "stop_setstopped",
                                      !.tried = Append(@, call)]]
    /\ UNCHANGED <<store, services, ingresses, everPod, nextID, background, issued>>
    /\ SetHeap(heap)

\* runtimeInfo.Status = types.StatusStopped, on the shared object.
StopSetStopped(c) ==
    /\ NoneDone
    /\ UNCHANGED run
    /\ client[c].pc = "stop_setstopped"
    /\ client' = [client EXCEPT ![c].pc = "stop_update"]
    /\ UNCHANGED <<store, orch, nextID, faults, background, issued>>
    /\ SetHeap([heap EXCEPT ![client[c].ptr].status = StatusStopped])

StopUpdate(c) ==
    /\ NoneDone
    /\ UNCHANGED run
    /\ client[c].pc = "stop_update"
    /\ UpdateRuntime(client[c].ptr, heap[client[c].ptr])
    /\ client' = [client EXCEPT ![c].pc = "stop_delete"]
    /\ UNCHANGED <<orch, nextID, faults, background, issued>>
    /\ SetHeap(heap)

\* DeleteRuntime (its error dropped), then the 200 response.
StopRespond(c) ==
    /\ NoneDone
    /\ UNCHANGED run
    /\ client[c].pc = "stop_delete"
    /\ DeleteRuntime(client[c].rid)
    /\ client' = [client EXCEPT ![c] = Respond(@, 200, heap[@.ptr])]
    /\ UNCHANGED <<orch, nextID, faults, background, issued>>
    /\ SetHeap(heap)

StopRuntime(c) ==
    \/ \E r \in RuntimeIDs : StopLookup(c, r)
    \/ StopDeleteIngress(c)
    \/ StopDeleteService(c)
    \/ StopDeletePod(c)
    \/ StopSetStopped(c)
    \/ StopUpdate(c)
    \/ StopRespond(c)

\* ------------------------------------------------------------------ POST /pause
PauseLookup(c, r) ==
    \E k \in Keys :
    /\ Admitted(workers)
    /\ Quiet(c)
    /\ AuthMiddleware(Path("pause", "", r), k)
    /\ LET h == GetRuntimeByID(r)
       IN client' = [client EXCEPT ![c] =
              IF h = 0
              THEN Respond(Begin(c, k, "pause", "", r, "done"), 404, NoRec)
              ELSE [Begin(c, k, "pause", "", r, "pause_scale") EXCEPT
                       !.ptr = h,
                       !.pre = <<services[r], ingresses[r], heap[h].status>>]]
    /\ UNCHANGED <<store, orch, nextID, faults, background, issued>>
    /\ SetHeap(heap)

\* ScalePodToZero is DeletePod: every error, not-found too, fails the pause.
ScalePodToZero(c) ==
    /\ NoneDone
    /\ UNCHANGED run
    /\ client[c].pc = "pause_scale"
    /\ \E ok \in Outcomes :
          /\ Fault(ok)
          /\ LET call == <<"pod", Outcome(ok, PodExists(heap[client[c].ptr].rid))>>
             IN IF ok /\ PodExists(heap[client[c].ptr].rid)
                THEN /\ PodDeleted(heap[client[c].ptr].rid)
                     /\ client' = [client EXCEPT ![c].pc = "pause_setstatus",
                                                 ![c].tried = Append(@, call)]
                ELSE /\ client' = [client EXCEPT ![c] =
                            Respond([@ EXCEPT !.tried = Append(@, call)], 500,
                                    heap[@.ptr])]
                     /\ UNCHANGED pods
    /\ UNCHANGED <<store, services, ingresses, everPod, nextID, background, issued>>
    /\ SetHeap(heap)

\* runtimeInfo.Status = types.StatusPaused
PauseSetStatus(c) ==
    /\ NoneDone
    /\ UNCHANGED run
    /\ client[c].pc = "pause_setstatus"
    /\ client' = [client EXCEPT ![c].pc = "pause_setpod"]
    /\ UNCHANGED <<store, orch, nextID, faults, background, issued>>
    /\ SetHeap([heap EXCEPT ![client[c].ptr].status = StatusPaused])

\* runtimeInfo.PodStatus = types.PodStatusNotFound
PauseSetPodStatus(c) ==
    /\ NoneDone
    /\ UNCHANGED run
    /\ client[c].pc = "pause_setpod"
    /\ client' = [client EXCEPT ![c].pc = "pause_update"]
    /\ UNCHANGED <<store, orch, nextID, faults, background, issued>>
    /\ SetHeap([heap EXCEPT ![client[c].ptr].podStatus = PodStatusNotFound])

\* UpdateRuntime, then the 200 response.
PauseRespond(c) ==
    /\ NoneDone
    /\ UNCHANGED run
    /\ client[c].pc = "pause_update"
    /\ UpdateRuntime(client[c].ptr, heap[client[c].ptr])
    /\ client' = [client EXCEPT ![c] = Respond(@, 200, heap[@.ptr])]
    /\ UNCHANGED <<orch, nextID, faults, background, issued>>
    /\ SetHeap([heap EXCEPT ![client[c].ptr].snap =
                   IF client[c].pre[3] = StatusRunning
                   THEN <<client[c].pre[1], client[c].pre[2]>> ELSE <<>>])

PauseRuntime(c) ==
    \/ \E r \in RuntimeIDs : PauseLookup(c, r)
    \/ ScalePodToZero(c)
    \/ PauseSetStatus(c)
    \/ PauseSetPodStatus(c)
    \/ PauseRespond(c)

\* ------------------------------------------------------------------ POST /resume
\* The lookup and the two status checks: running is a no-op, not paused an error.
\* Variant: a resume without the already-running shortcut.
ResumeLookupNoShortcut(c, r) ==
    \E k \in Keys :
    /\ Admitted(workers)
    /\ Quiet(c)
    /\ AuthMiddleware(Path("resume", "", r), k)
    /\ LET h == GetRuntimeByID(r)
           b == Begin(c, k, "resume", "", r, "done")
       IN client' = [client EXCEPT ![c] =
              IF h = 0 THEN Respond(b, 404, NoRec)
              ELSE IF heap[h].status # StatusPaused
                   THEN Respond([b EXCEPT !.ptr = h], 400, heap[h])
              ELSE [b EXCEPT !.pc = "resume_pod", !.ptr = h]]
    /\ UNCHANGED <<store, orch, nextID, faults, background, issued>>
    /\ SetHeap(heap)

\* Variant: a resume without the check that the record is paused.
ResumeLookupNoStateCheck(c, r) ==
    \E k \in Keys :
    /\ Admitted(workers)
    /\ Quiet(c)
    /\ AuthMiddleware(Path("resume", "", r), k)
    /\ LET h == GetRuntimeByID(r)
           b == Begin(c, k, "resume", "", r, "done")
       IN client' = [client EXCEPT ![c] =
              IF h = 0 THEN Respond(b, 404, NoRec)
              ELSE IF heap[h].status = StatusRunning
                   THEN Respond([b EXCEPT !.ptr = h], 200, heap[h])
              ELSE [b EXCEPT !.pc = "resume_pod", !.ptr = h]]
    /\ UNCHANGED <<store, orch, nextID, faults, background, issued>>
    /\ SetHeap(heap)

ResumeLookup(c, r) ==
    \E k \in Keys :
    /\ Admitted(workers)
    /\ Quiet(c)
    /\ AuthMiddleware(Path("resume", "", r), k)
    /\ LET h == GetRuntimeByID(r)
           b == Begin(c, k, "resume", "", r, "done")
       IN client' = [client EXCEPT ![c] =
              IF h = 0 THEN Respond(b, 404, NoRec)
              ELSE IF heap[h].status = StatusRunning
                   THEN Respond([b EXCEPT !.ptr = h], 200, heap[h])
              ELSE IF heap[h].status # StatusPaused
                   THEN Respond([b EXCEPT !.ptr = h], 400, heap[h])
              ELSE [b EXCEPT !.pc = "resume_pod", !.ptr = h]]
    /\ UNCHANGED <<store, orch, nextID, faults, background, issued>>
    /\ SetHeap(heap)

\* RecreatePod is createPod: a pod of that name still there is an error.
RecreatePod(c) ==
    /\ NoneDone
    /\ UNCHANGED run
    /\ client[c].pc = "resume_pod"
    /\ \E ok \in Outcomes :
          /\ Fault(ok)
          /\ IF ok /\ ~PodExists(heap[client[c].ptr].rid)
             THEN /\ PodCreated(heap[client[c].ptr])
                  /\ client' = [client EXCEPT ![c].pc = "resume_setstatus",
                                              ![c].calls = @ + 1]
             ELSE /\ client' = [client EXCEPT ![c] =
                                   Respond([@ EXCEPT !.calls = @ + 1], 500, heap[@.ptr])]
                  /\ UNCHANGED <<pods, everPod>>
    /\ UNCHANGED <<store, services, ingresses, nextID, background, issued>>
    /\ SetHeap(heap)

\* Variant: a resume that leaves the status as it was.
ResumeKeepsStatus(c) ==
    /\ NoneDone
    /\ UNCHANGED run
    /\ client[c].pc = "resume_setstatus"
    /\ client' = [client EXCEPT ![c].pc = "resume_setpod"]
    /\ UNCHANGED <<store, orch, nextID, faults, background, issued>>
    /\ SetHeap(heap)

\* runtimeInfo.Status = types.StatusRunning
ResumeSetStatus(c) ==
    /\ NoneDone
    /\ UNCHANGED run
    /\ client[c].pc = "resume_setstatus"
    /\ client' = [client EXCEPT ![c].pc = "resume_setpod"]
    /\ UNCHANGED <<store, orch, nextID, faults, background, issued>>
    /\ SetHeap([heap EXCEPT ![client[c].ptr].status = StatusRunning])

\* runtimeInfo.PodStatus = types.PodStatusPending
ResumeSetPodStatus(c) ==
    /\ NoneDone
    /\ UNCHANGED run
    /\ client[c].pc = "resume_setpod"
    /\ client' = [client EXCEPT ![c].pc = "resume_update"]
    /\ UNCHANGED <<store, orch, nextID, faults, background, issued>>
    /\ SetHeap([heap EXCEPT ![client[c].ptr].podStatus = PodStatusPending])

\* UpdateRuntime, then the 200 response.
ResumeRespond(c) ==
    /\ NoneDone
    /\ UNCHANGED run
    /\ client[c].pc = "resume_update"
    /\ UpdateRuntime(client[c].ptr, heap[client[c].ptr])
    /\ client' = [client EXCEPT ![c] =
                     Respond([@ EXCEPT !.pre = heap[client[c].ptr].snap], 200,
                             heap[@.ptr])]
    /\ UNCHANGED <<orch, nextID, faults, background, issued>>
    /\ SetHeap([heap EXCEPT ![client[c].ptr].snap = <<>>])

ResumeRuntime(c) ==
    \/ \E r \in RuntimeIDs : ResumeLookup(c, r)
    \/ RecreatePod(c)
    \/ ResumeSetStatus(c)
    \/ ResumeSetPodStatus(c)
    \/ ResumeRespond(c)

\* ------------------------------------------------------------------ GET and proxy
\* GetRuntime: no discovery, an unknown runtime_id is a 404.
GetRuntimeLookup(c, r) ==
    \E k \in Keys :
    /\ Admitted(workers)
    /\ Quiet(c)
    /\ AuthMiddleware(Path("get", "", r), k)
    /\ LET h == GetRuntimeByID(r)
       IN client' = [client EXCEPT ![c] =
              IF h = 0
              THEN Respond(Begin(c, k, "get", "", r, "done"), 404, NoRec)
              ELSE [Begin(c, k, "get", "", r, "get_status") EXCEPT !.ptr = h]]
    /\ UNCHANGED <<store, orch, nextID, faults, background, issued>>
    /\ SetHeap(heap)

\* GetSession: an unknown session_id goes to discovery by label.
GetSessionLookup(c, s) ==
    \E k \in Keys :
    /\ Admitted(workers)
    /\ Quiet(c)
    /\ AuthMiddleware(Path("session", s, 0), k)
    /\ LET h == GetRuntimeBySessionID(s)
       IN client' = [client EXCEPT ![c] =
              [Begin(c, k, "session", s, 0, IF h = 0 THEN "discover" ELSE "get_status")
                  EXCEPT !.ptr = h]]
    /\ UNCHANGED <<store, orch, nextID, faults, background, issued>>
    /\ SetHeap(heap)

\* Variant: a proxy request that leaves the record as it was.
UpdateLastActivityNever(hp, h) == hp

\* UpdateLastActivity: the record's last activity is now.
UpdateLastActivity(hp, h) == [hp EXCEPT ![h].lastActivity = now]

\* ProxySandbox: an unknown runtime_id goes to discovery by label; a known one
\* is touched and the request is passed on.
ProxyLookup(c, r) ==
    \E k \in Keys :
    /\ Admitted(workers)
    /\ Quiet(c)
    /\ AuthMiddleware(Path("proxy", "", r), k)
    /\ LET h == GetRuntimeByID(r)
       IN client' = [client EXCEPT ![c] =
              IF h = 0
              THEN Begin(c, k, "proxy", "", r, "discover")
              ELSE Respond([Begin(c, k, "proxy", "", r, "done") EXCEPT !.ptr = h],
                           200, heap[h])]
    /\ UNCHANGED <<store, orch, nextID, faults, background, issued>>
    /\ SetHeap(IF GetRuntimeByID(r) = 0 THEN heap
               ELSE UpdateLastActivity(heap, GetRuntimeByID(r)))

\* Pods the label selector of the request matches.
Matching(cl) ==
    {r \in RuntimeIDs :
        /\ PodExists(r)
        /\ IF cl.op = "session" THEN pods[r].sid = cl.sid ELSE r = cl.rid}

\* DiscoverRuntimeBySessionID / DiscoverRuntimeByRuntimeID: list.Items[0] of the
\* matching pods, rebuilt by buildRuntimeInfoFromPod; nil when the list fails or
\* is empty; status unknown when the status call of the rebuild fails.
DiscoverRuntime(c) ==
    /\ NoneDone
    /\ UNCHANGED run
    /\ client[c].pc = "discover"
    /\ UNCHANGED <<store, orch, nextID, background, issued>>
    /\ \E ok \in Outcomes :
          /\ Fault(ok)
          /\ IF Matching(client[c]) = {}
             THEN /\ client' = [client EXCEPT ![c] = Respond(@, 404, NoRec)]
                  /\ SetHeap(heap)
             ELSE \/ /\ ~ok
                     /\ client' = [client EXCEPT ![c] = Respond(@, 404, NoRec)]
                     /\ SetHeap(heap)
                  \/ /\ CanAlloc
                     /\ \E r \in Matching(client[c]) :
                           /\ client' = [client EXCEPT ![c].pc = "discover_add",
                                                       ![c].ptr = NewHandle,
                                                       ![c].hit = r]
                           /\ SetHeap([heap EXCEPT ![NewHandle] =
                                  buildRuntimeInfoFromPod(r, pods[r].sid, pods[r].key,
                                      IF ok THEN GetPodStatus(r) ELSE PodStatusUnknown)])

\* h.stateMgr.AddRuntime(discovered)
DiscoverAdd(c) ==
    /\ NoneDone
    /\ UNCHANGED run
    /\ client[c].pc = "discover_add"
    /\ AddRuntime(client[c].ptr, heap[client[c].ptr])
    /\ client' = [client EXCEPT ![c] =
                     IF @.op = "proxy" THEN Respond(@, 200, heap[@.ptr])
                     ELSE [@ EXCEPT !.pc = "get_status"]]
    /\ UNCHANGED <<orch, nextID, faults, background, issued>>
    /\ SetHeap(IF client[c].op = "proxy"
               THEN UpdateLastActivity(heap, client[c].ptr) ELSE heap)

\* updateRuntimeStatusFromK8s: the live status is written into the shared object.
RefreshStatus(c) ==
    /\ NoneDone
    /\ UNCHANGED run
    /\ client[c].pc = "get_status"
    /\ UNCHANGED <<store, orch, nextID, background, issued>>
    /\ \E ok \in Outcomes :
          /\ Fault(ok)
          /\ IF ok
             THEN /\ client' = [client EXCEPT ![c].pc = "get_update"]
                  /\ SetHeap([heap EXCEPT ![client[c].ptr].podStatus =
                                 GetPodStatus(heap[client[c].ptr].rid)])
             ELSE /\ client' = [client EXCEPT ![c] = Respond(@, 200, heap[@.ptr])]
                  /\ SetHeap(heap)

\* updateRuntimeStatusFromK8s: UpdateRuntime, then the 200 response.
GetRespond(c) ==
    /\ NoneDone
    /\ UNCHANGED run
    /\ client[c].pc = "get_update"
    /\ UpdateRuntime(client[c].ptr, heap[client[c].ptr])
    /\ client' = [client EXCEPT ![c] = Respond(@, 200, heap[@.ptr])]
    /\ UNCHANGED <<orch, nextID, faults, background, issued>>
    /\ SetHeap(heap)

Queries(c) ==
    \/ \E r \in RuntimeIDs : GetRuntimeLookup(c, r)
    \/ \E s \in Sessions : GetSessionLookup(c, s)
    \/ \E r \in RuntimeIDs : ProxyLookup(c, r)
    \/ DiscoverRuntime(c)
    \/ DiscoverAdd(c)
    \/ RefreshStatus(c)
    \/ GetRespond(c)

\* ------------------------------------------------------------------ reconciler
\* DiscoverAllRuntimes: one rebuilt record per sandbox pod carrying both labels.
DiscoverAllRuntimes ==
    {buildRuntimeInfoFromPod(r, pods[r].sid, pods[r].key, GetPodStatus(r)) :
        r \in {q \in RuntimeIDs : PodExists(q)}}

\* A tick of the reconcile loop: the listing (a failed listing is skipped).
ReconcileList ==
    /\ Admitted(workers)
    /\ life.reconciling
    /\ reconciler.pc = "idle"
    /\ DiscoverAllRuntimes # {}
    /\ reconciler' = [pc |-> "adding", list |-> DiscoverAllRuntimes,
                      listed |-> DiscoverAllRuntimes, added |-> 0]
    /\ UNCHANGED <<store, orch, nextID, faults, client, reaper, cleaner, issued>>
    /\ SetHeap(heap)

\* Variant: a loop body that adds nothing.
ReconcileAddNothing ==
    /\ NoneDone
    /\ UNCHANGED run
    /\ reconciler.pc = "adding"
    /\ \E rt \in reconciler.list :
          /\ reconciler' = [reconciler EXCEPT !.list = @ \ {rt}]
          /\ UNCHANGED <<store, orch, nextID, faults, client, reaper, cleaner, issued>>
          /\ SetHeap(heap)

\* The loop body: a runtime the store does not know by id is added.
ReconcileAdd ==
    /\ NoneDone
    /\ UNCHANGED run
    /\ reconciler.pc = "adding"
    /\ CanAlloc
    /\ \E rt \in reconciler.list :
          IF GetRuntimeByID(rt.rid) = 0
          THEN /\ reconciler' = [reconciler EXCEPT !.list = @ \ {rt},
                                                   !.added = @ + 1]
               /\ AddRuntime(NewHandle, rt)
               /\ UNCHANGED <<orch, nextID, faults, client, reaper, cleaner, issued>>
               /\ SetHeap([heap EXCEPT ![NewHandle] = rt])
          ELSE /\ reconciler' = [reconciler EXCEPT !.list = @ \ {rt}]
               /\ UNCHANGED <<store, orch, nextID, faults, client, reaper, cleaner, issued>>
               /\ SetHeap(heap)

\* The loop has run through the listing: the tick ends, the ticker is awaited.
ReconcileDone ==
    /\ NoneDone
    /\ UNCHANGED run
    /\ reconciler.pc = "adding"
    /\ reconciler.list = {}
    /\ reconciler' = IdleReconciler
    /\ UNCHANGED <<store, orch, nextID, faults, client, reaper, cleaner, issued>>
    /\ SetHeap(heap)

Reconcile == ReconcileList \/ ReconcileAdd \/ ReconcileDone

\* ------------------------------------------------------------------ idle reaper
\* checkAndReapIdleSandboxes: ListRuntimes hands out the pointers of the store.
ReaperList ==
    /\ Admitted(workers)
    /\ life.reaping
    /\ reaper.pc = "idle"
    /\ Range(runtimeByID) # {0}
    /\ reaper' = [IdleReaper EXCEPT !.pc = "scan", !.snap = Range(runtimeByID) \ {0},
                                    !.at = now]
    /\ UNCHANGED <<store, orch, nextID, faults, client, reconciler, cleaner, issued>>
    /\ SetHeap(heap)

\* Variant: a record is idle from the timeout on.
IdleFromTimeout(info) == {reaper.at - info.lastActivity >= IdleTimeout}

\* idleDuration > r.idleTimeout, by the clock of the model.
IdleByClock(info) == {reaper.at - info.lastActivity > IdleTimeout}

\* The same where the clock of the model stands still and the time that has
\* really passed is not known: either answer can be the comparison's.
IdleByAnyClock(info) == BOOLEAN

\* The loop: only a running record idle for longer than the timeout is reaped;
\* clocked tells whether the comparison is made by the clock of the model.
ReaperScanBy(clocked) ==
    /\ NoneDone
    /\ UNCHANGED run
    /\ reaper.pc = "scan"
    /\ \E h \in reaper.snap : \E idle \in (IF clocked THEN IdleByClock(heap[h])
                                           ELSE IdleByAnyClock(heap[h])) :
          LET rest == reaper.snap \ {h}
          IN reaper' =
                IF heap[h].status = StatusRunning /\ idle
                THEN [reaper EXCEPT !.pc = "reap_ing", !.snap = rest, !.ptr = h]
                ELSE IF rest = {} THEN IdleReaper
                ELSE [reaper EXCEPT !.snap = rest]
    /\ UNCHANGED <<store, orch, nextID, faults, client, reconciler, cleaner, issued>>
    /\ SetHeap(heap)

\* The loop where the clock stands still.
ReaperScan == ReaperScanBy(FALSE)

\* The loop by the clock.
checkAndReapIdleSandboxes == ReaperScanBy(TRUE)

\* reapSandbox: DeleteSandbox, one API call per step.
ReaperDeleteIngress ==
    /\ NoneDone
    /\ UNCHANGED run
    /\ reaper.pc = "reap_ing"
    /\ \E ok \in Outcomes :
          /\ Fault(ok)
          /\ IF ok
             THEN /\ IngressDeleted(heap[reaper.ptr].rid)
                  /\ reaper' = [reaper EXCEPT !.pc = "reap_svc"]
             ELSE /\ reaper' = [reaper EXCEPT !.pc = "reap_svc", !.errs = TRUE]
                  /\ UNCHANGED ingresses
    /\ UNCHANGED <<store, pods, services, everPod, nextID, client, reconciler, cleaner, issued>>
    /\ SetHeap(heap)

ReaperDeleteService ==
    /\ NoneDone
    /\ UNCHANGED run
    /\ reaper.pc = "reap_svc"
    /\ \E ok \in Outcomes :
          /\ Fault(ok)
          /\ IF ok
             THEN /\ ServiceDeleted(heap[reaper.ptr].rid)
                  /\ reaper' = [reaper EXCEPT !.pc = "reap_pod"]
             ELSE /\ reaper' = [reaper EXCEPT !.pc = "reap_pod", !.errs = TRUE]
                  /\ UNCHANGED services
    /\ UNCHANGED <<store, pods, ingresses, everPod, nextID, client, reconciler, cleaner, issued>>
    /\ SetHeap(heap)

\* The next record of the listing, or the end of the tick.
ReaperNext(rp) ==
    IF rp.snap = {} THEN IdleReaper
    ELSE [rp EXCEPT !.pc = "scan", !.ptr = 0, !.errs = FALSE]

ReaperDeletePod ==
    /\ NoneDone
    /\ UNCHANGED run
    /\ reaper.pc = "reap_pod"
    /\ \E ok \in Outcomes :
          /\ Fault(ok)
          /\ IF ok THEN PodDeleted(heap[reaper.ptr].rid) ELSE UNCHANGED pods
          /\ reaper' = IF reaper.errs \/ ~ok THEN ReaperNext(reaper)
                       ELSE [reaper EXCEPT !.pc = "reap_setstopped"]
    /\ UNCHANGED <<store, services, ingresses, everPod, nextID, client, reconciler, cleaner, issued>>
    /\ SetHeap(heap)

\* runtime.Status = types.StatusStopped
ReaperSetStopped ==
    /\ NoneDone
    /\ UNCHANGED run
    /\ reaper.pc = "reap_setstopped"
    /\ reaper' = [reaper EXCEPT !.pc = "reap_update"]
    /\ UNCHANGED <<store, orch, nextID, faults, client, reconciler, cleaner, issued>>
    /\ SetHeap([heap EXCEPT ![reaper.ptr].status = StatusStopped])

ReaperUpdate ==
    /\ NoneDone
    /\ UNCHANGED run
    /\ reaper.pc = "reap_update"
    /\ UpdateRuntime(reaper.ptr, heap[reaper.ptr])
    /\ reaper' = [reaper EXCEPT !.pc = "reap_delete"]
    /\ UNCHANGED <<orch, nextID, faults, client, reconciler, cleaner, issued>>
    /\ SetHeap(heap)

ReaperDelete ==
    /\ NoneDone
    /\ UNCHANGED run
    /\ reaper.pc = "reap_delete"
    /\ DeleteRuntime(heap[reaper.ptr].rid)
    /\ reaper' = ReaperNext(reaper)
    /\ UNCHANGED <<orch, nextID, faults, client, reconciler, cleaner, issued>>
    /\ SetHeap(heap)

Reaper ==
    \/ ReaperList
    \/ ReaperScan
    \/ ReaperDeleteIngress
    \/ ReaperDeleteService
    \/ ReaperDeletePod
    \/ ReaperSetStopped
    \/ ReaperUpdate
    \/ ReaperDelete

\* ------------------------------------------------------------------ process restart
\* The handle startup discovery gives the record of pod r: the pods in id order.
BootHandle(r) == Cardinality({q \in RuntimeIDs : PodExists(q) /\ q <= r})

\* The process dies and main runs again: a new empty store, then startup
\* discovery adds every listed runtime (nothing when the listing fails). Of two
\* pods of one session the one added last stays in the session index.
Restart ==
    /\ Admitted(MaxInFlight + 2)      \* whatever is in flight
    /\ life.pc = "serving"            \* a process that shuts down exits
    /\ client' = [c \in Clients |-> IdleClient]
    /\ reconciler' = IdleReconciler
    /\ reaper' = IdleReaper
    /\ cleaner' = IdleCleaner
    /\ \/ /\ \/ DiscoverAllRuntimes = {} /\ UNCHANGED faults
             \/ faults < faultCap /\ Fault(FALSE)
          /\ runtimeByID' = [r \in RuntimeIDs |-> 0]
          /\ runtimeBySession' = [s \in Sessions |-> 0]
          /\ heap' = [h \in Handles |-> NoRec]
       \/ /\ DiscoverAllRuntimes # {}
          /\ Cardinality(DiscoverAllRuntimes) <= MaxObjs
          /\ UNCHANGED faults
          /\ \E last \in [Sessions -> RuntimeIDs \cup {0}] :
                /\ \A s \in Sessions :
                      IF \E rt \in DiscoverAllRuntimes : rt.sid = s
                      THEN last[s] # 0 /\ PodExists(last[s]) /\ pods[last[s]].sid = s
                      ELSE last[s] = 0
                /\ runtimeByID' = [r \in RuntimeIDs |->
                                      IF PodExists(r) THEN BootHandle(r) ELSE 0]
                /\ runtimeBySession' = [s \in Sessions |->
                                      IF last[s] = 0 THEN 0 ELSE BootHandle(last[s])]
                /\ heap' = [h \in Handles |->
                               IF \E rt \in DiscoverAllRuntimes : BootHandle(rt.rid) = h
                               THEN CHOOSE rt \in DiscoverAllRuntimes : BootHandle(rt.rid) = h
                               ELSE NoRec]
    /\ UNCHANGED <<orch, nextID, issued>>

\* ------------------------------------------------------------------ specifications
Request(c) ==
    \/ StartRuntime(c)
    \/ StopRuntime(c)
    \/ PauseRuntime(c)
    \/ ResumeRuntime(c)
    \/ Queries(c)

\* The response has left: the worker is free for the next request.
Return(c) ==
    /\ UNCHANGED run
    /\ client[c].pc = "done"
    /\ client' = [client EXCEPT ![c] = IdleClient]
    /\ UNCHANGED <<store, orch, nextID, faults, background, issued>>
    /\ SetHeap(heap)

\* Request workers and background loops run in parallel; a restart can come at
\* any time.
Next ==
    \/ \E c \in Clients : Request(c) \/ Return(c)
    \/ Reconcile
    \/ Reaper
    \/ Restart

Spec == Init /\ [][Next]_vars

\* One activity at a time: a request or a background tick runs to its end
\* before the next one starts.
SerialInit == InitWith(1, MaxSerialActivities, MaxFaults)

SerialSpec == SerialInit /\ [][Next]_vars

\* A serial run in which the orchestrator may fail twice: a call of a handler,
\* and the compensating call that follows it.
UndoInit == InitWith(1, MaxUndoActivities, MaxUndoFaults)

UndoSpec == UndoInit /\ [][Next]_vars

\* ------------------------------------------------------------------ cleanup service
\* Variant: a verdict that asks for more than the threshold.
shouldCleanupStrictly(info, podStatus) ==
    IF podStatus \in {PodStatusFailed, PodStatusCrashLoopBackOff}
       /\ now - info.createdAt > FailedThreshold
    THEN "pod_failed"
    ELSE IF podStatus \notin {PodStatusFailed, PodStatusCrashLoopBackOff}
            /\ now - info.createdAt > IdleThreshold
    THEN "pod_idle"
    ELSE ""

\* Variant: a verdict that gives a failed pod no time at all.
shouldCleanupFailedAtOnce(info, podStatus) ==
    IF podStatus \in {PodStatusFailed, PodStatusCrashLoopBackOff}
    THEN "pod_failed"
    ELSE IF now - info.createdAt >= IdleThreshold
    THEN "pod_idle"
    ELSE ""

\* shouldCleanupRuntime: the reason to clean the record up, "" for none. Both
\* ages are measured from CreatedAt.
shouldCleanupRuntime(info, podStatus) ==
    IF podStatus \in {PodStatusFailed, PodStatusCrashLoopBackOff}
       /\ now - info.createdAt >= FailedThreshold
    THEN "pod_failed"
    ELSE IF podStatus \notin {PodStatusFailed, PodStatusCrashLoopBackOff}
            /\ now - info.createdAt >= IdleThreshold
    THEN "pod_idle"
    ELSE ""

\* The reaping condition of a record that is not stopped: its workload has
\* failed and it is at least the failed threshold old, or it has seen no
\* activity for at least the idle threshold.
ReapingDue(info) ==
    /\ info.status # StatusStopped
    /\ \/ /\ GetPodStatus(info.rid) \in {PodStatusFailed, PodStatusCrashLoopBackOff}
          /\ now - info.createdAt >= FailedThreshold
       \/ now - info.lastActivity >= IdleThreshold

\* runCleanup: ListRuntimes hands out the pointers of the store.
CleanupList ==
    /\ Admitted(workers)
    /\ life.cleaning
    /\ cleaner.pc = "idle"
    /\ Range(runtimeByID) # {0}
    /\ cleaner' = [IdleCleaner EXCEPT !.pc = "scan", !.snap = Range(runtimeByID) \ {0}]
    /\ UNCHANGED <<store, orch, nextID, faults, client, reconciler, reaper, issued>>
    /\ SetHeap(heap)

\* The loop body up to the verdict: a stopped record is passed over, so is one
\* whose pod status cannot be read.
CleanupScan ==
    /\ NoneDone
    /\ UNCHANGED run
    /\ cleaner.pc = "scan"
    /\ \E h \in cleaner.snap : \E ok \in Outcomes :
          LET at == [cleaner EXCEPT !.snap = @ \ {h}, !.ptr = h,
                                    !.idleFor = now - heap[h].lastActivity,
                                    !.due = ReapingDue(heap[h]),
                                    !.live = GetPodStatus(heap[h].rid),
                                    !.age = now - heap[h].createdAt]
              reason == shouldCleanupRuntime(heap[h], GetPodStatus(heap[h].rid))
          IN IF heap[h].status = StatusStopped
             THEN /\ ok
                  /\ UNCHANGED faults
                  /\ cleaner' = [at EXCEPT !.pc = "seen"]
             ELSE /\ Fault(ok)
                  /\ cleaner' =
                        IF ~ok THEN [at EXCEPT !.pc = "seen", !.errs = TRUE]
                        ELSE IF reason = "" THEN [at EXCEPT !.pc = "seen"]
                        ELSE [at EXCEPT !.pc = "clean_ing", !.reason = reason]
    /\ UNCHANGED <<store, orch, nextID, client, reconciler, reaper, issued>>
    /\ SetHeap(heap)

\* DeleteSandbox, one API call per step.
CleanupDeleteIngress ==
    /\ NoneDone
    /\ UNCHANGED run
    /\ cleaner.pc = "clean_ing"
    /\ \E ok \in Outcomes :
          /\ Fault(ok)
          /\ IF ok
             THEN /\ IngressDeleted(heap[cleaner.ptr].rid)
                  /\ cleaner' = [cleaner EXCEPT !.pc = "clean_svc"]
             ELSE /\ cleaner' = [cleaner EXCEPT !.pc = "clean_svc", !.errs = TRUE]
                  /\ UNCHANGED ingresses
    /\ UNCHANGED <<store, pods, services, everPod, nextID, client, reconciler, reaper, issued>>
    /\ SetHeap(heap)

CleanupDeleteService ==
    /\ NoneDone
    /\ UNCHANGED run
    /\ cleaner.pc = "clean_svc"
    /\ \E ok \in Outcomes :
          /\ Fault(ok)
          /\ IF ok
             THEN /\ ServiceDeleted(heap[cleaner.ptr].rid)
                  /\ cleaner' = [cleaner EXCEPT !.pc = "clean_pod"]
             ELSE /\ cleaner' = [cleaner EXCEPT !.pc = "clean_pod", !.errs = TRUE]
                  /\ UNCHANGED services
    /\ UNCHANGED <<store, pods, ingresses, everPod, nextID, client, reconciler, reaper, issued>>
    /\ SetHeap(heap)

\* The last call of DeleteSandbox: with any error the record is left alone.
CleanupDeletePod ==
    /\ NoneDone
    /\ UNCHANGED run
    /\ cleaner.pc = "clean_pod"
    /\ \E ok \in Outcomes :
          /\ Fault(ok)
          /\ IF ok THEN PodDeleted(heap[cleaner.ptr].rid) ELSE UNCHANGED pods
          /\ cleaner' = IF cleaner.errs \/ ~ok
                        THEN [cleaner EXCEPT !.pc = "seen", !.errs = TRUE]
                        ELSE [cleaner EXCEPT !.pc = "clean_delete"]
    /\ UNCHANGED <<store, services, ingresses, everPod, nextID, client, reconciler, reaper, issued>>
    /\ SetHeap(heap)

\* s.stateMgr.DeleteRuntime(runtime.RuntimeID)
CleanupDelete ==
    /\ NoneDone
    /\ UNCHANGED run
    /\ cleaner.pc = "clean_delete"
    /\ DeleteRuntime(heap[cleaner.ptr].rid)
    /\ cleaner' = [cleaner EXCEPT !.pc = "seen"]
    /\ UNCHANGED <<orch, nextID, faults, client, reconciler, reaper, issued>>
    /\ SetHeap(heap)

\* The loop goes on to the next record of the listing, or the tick ends.
CleanupNext ==
    /\ NoneDone
    /\ UNCHANGED run
    /\ cleaner.pc = "seen"
    /\ cleaner' = IF cleaner.snap = {} THEN IdleCleaner
                  ELSE [IdleCleaner EXCEPT !.pc = "scan", !.snap = cleaner.snap]
    /\ UNCHANGED <<store, orch, nextID, faults, client, reconciler, reaper, issued>>
    /\ SetHeap(heap)

Cleanup ==
    \/ CleanupList
    \/ CleanupScan
    \/ CleanupDeleteIngress
    \/ CleanupDeleteService
    \/ CleanupDeletePod
    \/ CleanupDelete
    \/ CleanupNext

\* ------------------------------------------------------------------ time
\* Time passes between two activities (the thresholds are minutes, a handler
\* takes milliseconds).
Tick ==
    /\ NoneDone
    /\ InFlight = 0
    /\ now < MaxTime
    /\ now' = now + 1
    /\ UNCHANGED <<heap, store, orch, nextID, client, background, faults, issued,
                   workers, budget, faultCap, probe, wait, life, begun, peer>>

\* The container of a pod fails: from then on the pod's status is failed, or
\* crash-loop while the container is restarted again and again.
PodFails ==
    /\ NoneDone
    /\ InFlight = 0
    /\ \E r \in RuntimeIDs, st \in {PodStatusFailed, PodStatusCrashLoopBackOff} :
          /\ PodExists(r)
          /\ pods[r].phase \notin {PodStatusFailed, PodStatusCrashLoopBackOff}
          /\ pods' = [pods EXCEPT ![r].phase = st]
    /\ UNCHANGED <<heap, store, services, ingresses, everPod, nextID, client,
                   background, faults, issued, workers, budget, faultCap, probe, wait, life, begun,
                   peer, now>>

\* The process with its cleanup service, while time passes and pods fail.
TimedNext ==
    \/ \E c \in Clients : Request(c) \/ Return(c)
    \/ Reconcile
    \/ Reaper
    \/ Restart
    \/ Cleanup
    \/ Tick
    \/ PodFails

TimedInit == InitWith(1, MaxTimedActivities, MaxFaults)

TimedSpec == TimedInit /\ [][TimedNext]_vars

\* One life of the process in which start and stop requests, the reaper and the
\* cleanup service run in parallel while time passes.
RaceNext ==
    \/ \E c \in Clients : StartRuntime(c) \/ StopRuntime(c) \/ Return(c)
    \/ Reaper
    \/ Cleanup
    \/ Tick

RaceInit == InitWith(MaxInFlight, MaxRaceActivities, MaxFaults)

RaceSpec == RaceInit /\ [][RaceNext]_vars

\* One life of the process in which only the four lifecycle calls arrive, two
\* at a time.
LifecycleNext ==
    \E c \in Clients :
        \/ StartRuntime(c)
        \/ PauseRuntime(c)
        \/ ResumeRuntime(c)
        \/ StopRuntime(c)
        \/ Return(c)

LifecycleInit == InitWith(MaxInFlight, MaxLifecycleActivities, MaxFaults)

LifecycleSpec == LifecycleInit /\ [][LifecycleNext]_vars

\* The reaper with its comparison made by the clock.
ReaperByClock ==
    \/ ReaperList
    \/ checkAndReapIdleSandboxes
    \/ ReaperDeleteIngress
    \/ ReaperDeleteService
    \/ ReaperDeletePod
    \/ ReaperSetStopped
    \/ ReaperUpdate
    \/ ReaperDelete

\* A serial run of requests, reaper ticks and restarts while time passes.
IdleReapNext ==
    \/ \E c \in Clients : Request(c) \/ Return(c)
    \/ ReaperByClock
    \/ Restart
    \/ Tick

IdleReapInit == InitWith(1, MaxReaperActivities, MaxFaults)

IdleReapSpec == IdleReapInit /\ [][IdleReapNext]_vars

\* ------------------------------------------------------------------ a second replica
\* A tick of the other replica's reconcile loop, whose listing succeeds: every
\* listed runtime its store does not know by id is added to it.
PeerSweep ==
    /\ NoneDone
    /\ peer' = [byID |-> [r \in RuntimeIDs |->
                    IF peer.byID[r] = NoRec /\ PodExists(r)
                    THEN buildRuntimeInfoFromPod(r, pods[r].sid, pods[r].key,
                                                 GetPodStatus(r))
                    ELSE peer.byID[r]],
                at |-> begun]
    /\ peer' # peer
    /\ UNCHANGED <<heap, store, orch, nextID, client, background, faults, issued,
                   workers, budget, faultCap, probe, wait, life, begun, now>>

\* This replica serves every request; the other one only sweeps.
ReplicaNext ==
    \/ \E c \in Clients : Request(c) \/ Return(c)
    \/ Reconcile
    \/ Reaper
    \/ Restart
    \/ PeerSweep

ReplicaSpec == SerialInit /\ [][ReplicaNext]_vars

\* ------------------------------------------------------------------ shutdown
\* What a step of main's shutdown sequence leaves alone.
process == <<heap, store, orch, nextID, background, faults, issued, workers,
             budget, faultCap, probe, wait, begun, peer, now>>

\* Handlers in flight.
Handling == {c \in Clients : client[c].pc # "idle"}

\* sig := <-quit
Signal ==
    /\ NoneDone
    /\ life.pc = "serving"
    /\ life' = [life EXCEPT !.pc = "signalled"]
    /\ UNCHANGED <<process, client>>

\* reconcileCancel(): the reconcile loop returns at its next select.
CancelReconcile ==
    /\ NoneDone
    /\ life.pc = "signalled"
    /\ life' = [life EXCEPT !.pc = "reconcile_cancelled", !.reconciling = FALSE]
    /\ UNCHANGED <<process, client>>

\* reaperInstance.Stop(): close(stopChan).
StopReaper ==
    /\ NoneDone
    /\ life.pc = "reconcile_cancelled"
    /\ life' = [life EXCEPT !.pc = "reaper_stopped", !.reaping = FALSE]
    /\ UNCHANGED <<process, client>>

\* context.WithTimeout(..., cfg.ShutdownTimeout) runs out.
Expire ==
    /\ NoneDone
    /\ life.pc \in {"reaper_stopped", "cleanup_stopped", "draining"}
    /\ ~life.expired
    /\ life' = [life EXCEPT !.expired = TRUE]
    /\ UNCHANGED <<process, client>>

\* cleanupSvc.Stop(): close(stopChan) and wg.Wait(), which returns once a tick
\* under way has come to its end.
StopCleanup ==
    /\ NoneDone
    /\ life.pc = "reaper_stopped"
    /\ cleaner.pc = "idle"
    /\ life' = [life EXCEPT !.pc = "cleanup_stopped", !.cleaning = FALSE]
    /\ UNCHANGED <<process, client>>

\* server.Shutdown: the listeners are closed first.
CloseListeners ==
    /\ NoneDone
    /\ life.pc = "cleanup_stopped"
    /\ life' = [life EXCEPT !.pc = "draining", !.listening = FALSE,
                            !.waited = Handling # {}]
    /\ UNCHANGED <<process, client>>

\* Variant: a Shutdown that returns without waiting.
ShutdownReturnsAtOnce(l) == TRUE

\* server.Shutdown returns: nil once no handler is in flight, the context's
\* error once it has expired.
ShutdownReturns(l) == Handling = {} \/ l.expired

\* Stop of the cleanup service (cleanup is enabled, the default): close(stopChan),
\* and closing a channel that is closed already is a run-time panic.
StopPanics(l) == ~l.cleaning

\* server.Shutdown has returned. With an error, os.Exit(1) ends the process and
\* no deferred call runs. With nil, main returns and its deferred calls run,
\* the second cleanupSvc.Stop() among them. Either way the process is gone,
\* with whatever its goroutines were doing.
Exit ==
    /\ NoneDone
    /\ life.pc = "draining"
    /\ ShutdownReturns(life)
    /\ life' = [life EXCEPT !.pc = "exited", !.killed = Handling # {},
                            !.panicked = Handling = {} /\ StopPanics(life)]
    /\ client' = [c \in Clients |-> IdleClient]
    /\ reconciler' = IdleReconciler
    /\ reaper' = IdleReaper
    /\ cleaner' = IdleCleaner
    /\ UNCHANGED <<store, orch, nextID, faults, issued, workers, budget, faultCap,
                   probe, wait, begun, peer, now>>
    /\ SetHeap(heap)

Shutdown ==
    \/ Signal
    \/ CancelReconcile
    \/ StopReaper
    \/ Expire
    \/ StopCleanup
    \/ CloseListeners
    \/ Exit

\* The process up to its exit on a signal. The clock stands still, so the
\* cleanup service finds nothing due: its tick lists, scans and ends.
ShutdownNext ==
    \/ \E c \in Clients : Request(c) \/ Return(c)
    \/ Reconcile
    \/ Reaper
    \/ Restart
    \/ CleanupList
    \/ CleanupScan
    \/ CleanupNext
    \/ Shutdown

ShutdownInit == InitWith(1, MaxShutdownActivities, MaxFaults)

ShutdownSpec == ShutdownInit /\ [][ShutdownNext]_vars

\* ------------------------------------------------------------------ GetPodStatus
PodPhases == {"", "Pending", "Running", "Succeeded", "Failed", "Unknown"}
WaitingReasons == {"", "ContainerCreating", "CrashLoopBackOff"}
ContainerStatuses == [ready : BOOLEAN, waiting : WaitingReasons]
PodStatuses ==
    [found : BOOLEAN, phase : PodPhases,
     containers : UNION {[1..n -> ContainerStatuses] : n \in 0..MaxContainers}]

\* The first loop over pod.Status.ContainerStatuses, from container i on:
\* status becomes crash-loop at every container that waits with that reason.
RECURSIVE ScanContainers(_, _, _)
ScanContainers(cs, i, status) ==
    IF i > Len(cs) THEN status
    ELSE ScanContainers(cs, i + 1,
             IF cs[i].waiting = "CrashLoopBackOff"
             THEN PodStatusCrashLoopBackOff ELSE status)

\* The loop of the running case: allReady.
RECURSIVE AllReady(_, _)
AllReady(cs, i) ==
    IF i > Len(cs) THEN TRUE
    ELSE IF ~cs[i].ready THEN FALSE
    ELSE AllReady(cs, i + 1)

\* GetPodStatus on the pod the API server returns: not-found for no pod; else
\* the status of the container scan, replaced by what the phase says whenever
\* the phase is pending, running, failed or unknown.
GetPodStatusOf(pod) ==
    IF ~pod.found THEN PodStatusNotFound
    ELSE LET scanned == ScanContainers(pod.containers, 1, PodStatusPending)
         IN CASE pod.phase = "Pending" -> PodStatusPending
              [] pod.phase = "Running" ->
                    IF AllReady(pod.containers, 1) /\ Len(pod.containers) > 0
                    THEN PodStatusReady ELSE PodStatusRunning
              [] pod.phase = "Failed" -> PodStatusFailed
              [] pod.phase = "Unknown" -> PodStatusUnknown
              [] OTHER -> scanned

\* One call of GetPodStatus.
GetPodStatusCall ==
    /\ probe.status = ""
    /\ probe' = [probe EXCEPT !.status = GetPodStatusOf(probe.pod)]
    /\ UNCHANGED <<heap, store, orch, nextID, client, background, faults, issued,
                   workers, budget, faultCap, wait, life, begun, peer, now>>

\* GetPodStatus called once on any pod of the bounded shapes.
StatusInit ==
    /\ InitProcess(1, 0, 0)
    /\ probe \in [pod : PodStatuses, status : {""}]
    /\ wait = NoWait

StatusNext == GetPodStatusCall

StatusSpec == StatusInit /\ [][StatusNext]_vars

\* ------------------------------------------------------------------ WaitForPodReady
\* time.NewTicker(2 * time.Second)
PollInterval == 2
\* What GetPodStatus can make of the pod at the time of a poll.
WaitStatuses ==
    {PodStatusPending, PodStatusRunning, PodStatusReady, PodStatusFailed,
     PodStatusCrashLoopBackOff, PodStatusNotFound, PodStatusUnknown}

\* Variant: a context that is never done.
NeverExpired(w) == FALSE

\* ctx.Done() of context.WithTimeout(ctx, timeout) is closed.
Expired(w) == w.elapsed >= w.timeout

\* What the loop does with the status of a poll: "" is another round.
WaitVerdict(status) ==
    IF status = PodStatusReady THEN "ok"
    ELSE IF status \in {PodStatusFailed, PodStatusCrashLoopBackOff} THEN "failed"
    ELSE ""

\* A second passes while the call is in its select; the ticker sends every
\* PollInterval seconds into its channel of capacity one.
WaitElapse ==
    /\ wait.pc = "select"
    /\ wait.elapsed < MaxTimeout + PollInterval
    /\ wait' = [wait EXCEPT !.elapsed = @ + 1,
                            !.tick = @ \/ (wait.elapsed + 1) % PollInterval = 0]
    /\ UNCHANGED <<heap, store, orch, nextID, client, background, faults, issued,
                   workers, budget, faultCap, probe, life, begun, peer, now>>

\* case <-ticker.C: GetPodStatus under the call's context. Its error is
\* returned as it is, and with the context done the API call fails with the
\* context's deadline error; else the status decides.
WaitPoll ==
    /\ wait.pc = "select"
    /\ wait.tick
    /\ \E ok \in Outcomes, st \in WaitStatuses :
          /\ Fault(ok)
          /\ wait' =
                IF Expired(wait)
                THEN [wait EXCEPT !.pc = "returned", !.tick = FALSE,
                                  !.seen = Append(@, "error"), !.result = "timeout"]
                ELSE IF ~ok
                THEN [wait EXCEPT !.pc = "returned", !.tick = FALSE,
                                  !.seen = Append(@, "error"), !.result = "error"]
                ELSE [wait EXCEPT !.pc = IF WaitVerdict(st) = "" THEN "select"
                                         ELSE "returned",
                                  !.tick = FALSE, !.seen = Append(@, st),
                                  !.result = WaitVerdict(st)]
    /\ UNCHANGED <<heap, store, orch, nextID, client, background, issued,
                   workers, budget, faultCap, probe, life, begun, peer, now>>

\* case <-ctx.Done(): the timeout error.
WaitTimeout ==
    /\ wait.pc = "select"
    /\ Expired(wait)
    /\ wait' = [wait EXCEPT !.pc = "returned", !.result = "timeout"]
    /\ UNCHANGED <<heap, store, orch, nextID, client, background, faults, issued,
                   workers, budget, faultCap, probe, life, begun, peer, now>>

WaitForPodReady == WaitPoll \/ WaitTimeout

WaitNext == WaitElapse \/ WaitForPodReady

\* One call with any timeout of the bounded ones.
WaitInit ==
    /\ InitProcess(1, 0, MaxFaults)
    /\ probe = NoProbe
    /\ wait \in [pc : {"select"}, timeout : 0..MaxTimeout, elapsed : {0},
                  tick : {FALSE}, seen : {<<>>}, result : {""}]

\* Time passes, and the goroutine of the call runs whenever a case of its
\* select is ready.
WaitSpec ==
    WaitInit /\ [][WaitNext]_vars /\ WF_vars(WaitElapse) /\ WF_vars(WaitForPodReady)

\* ------------------------------------------------------------------ POST /sessions/batch-conversations
\* A function with one more argument.
Extended(f, x, v) == [y \in DOMAIN f \cup {x} |-> IF y = x THEN v ELSE f[y]]

\* Bodies of a decoded request: the sandboxes map, runtime_id to session_id.
BatchRequests ==
    UNION {[ids -> Sessions] : ids \in SUBSET (1..MaxBatch)}

\* What the agent server of a sandbox does with the conversations query: the
\* call fails, or it answers with a status and a body.
Empty == "[]"
Conversations == "[{\"id\":\"c1\"}]"
Unresolved == [found |-> FALSE, err |-> FALSE, code |-> 0, body |-> ""]
Upstreams ==
    {[found |-> TRUE, err |-> TRUE, code |-> 0, body |-> ""]}
        \cup [found : {TRUE}, err : {FALSE}, code : {200},
              body : {Conversations, "", "<html>"}]
        \cup [found : {TRUE}, err : {FALSE}, code : {204, 500}, body : {""}]

\* json.Valid, on the bodies above.
ValidJSON(b) == b \in {Empty, Conversations}

\* The value of an entry whose record was resolved: the body as it came when
\* the call succeeded with status 200, [] otherwise.
Entry(up) == IF up.err \/ up.code # 200 THEN Empty ELSE up.body

\* json.NewEncoder(w).Encode of the response map: each json.RawMessage value is
\* checked and compacted, and with a value that is not JSON the encoder returns
\* an error and writes nothing.
NoBody == [written |-> FALSE, entries |-> <<>>]
Encode(response) ==
    IF \A id \in DOMAIN response : ValidJSON(response[id])
    THEN [written |-> TRUE, entries |-> response] ELSE NoBody

\* Variant: a results channel with room for one result.
CapacityOne(req) == 1

\* make(chan result, len(req.Sandboxes))
Capacity(req) == Cardinality(DOMAIN req)

\* The request is decoded; an empty map is answered at once. Else the channel
\* is made and one goroutine per entry is started.
BatchLookup(c) ==
    \E k \in Keys :
    /\ Admitted(workers)
    /\ Quiet(c)
    /\ AuthMiddleware(Path("batch", "", 0), k)
    /\ \E req \in BatchRequests :
          client' = [client EXCEPT ![c] =
              IF DOMAIN req = {}
              THEN [Begin(c, k, "batch", "", 0, "done") EXCEPT
                        !.code = 200, !.outBody = Encode(req)]
              ELSE [Begin(c, k, "batch", "", 0, "batch_fetch") EXCEPT
                        !.want = req,
                        !.fan = [NoFan EXCEPT
                                    !.cap = Capacity(req),
                                    !.tasks = [id \in DOMAIN req |-> "run"],
                                    !.sends = [id \in DOMAIN req |-> 0]]]]
    /\ UNCHANGED <<store, orch, nextID, faults, background, issued>>
    /\ SetHeap(heap)

\* One goroutine of the fan-out up to its send: the record by runtime_id, else
\* by session_id, else []; the upstream call; the result sent to the channel,
\* which takes it while it has room. ups is history: what became of the entry.
BatchFetch(c) ==
    /\ NoneDone
    /\ UNCHANGED run
    /\ client[c].pc = "batch_fetch"
    /\ Len(client[c].fan.chan) < client[c].fan.cap
    /\ \E id \in DOMAIN client[c].want :
          /\ client[c].fan.tasks[id] = "run"
          /\ LET byID == IF id \in RuntimeIDs THEN GetRuntimeByID(id) ELSE 0
                 h == IF byID # 0 THEN byID
                      ELSE GetRuntimeBySessionID(client[c].want[id])
                 sent(data) == [client[c].fan EXCEPT
                                   !.chan = Append(@, <<id, data>>),
                                   !.tasks[id] = "sent",
                                   !.sends[id] = @ + 1,
                                   !.late = @ \/ client[c].fan.closes > 0]
             IN IF h = 0
                THEN client' = [client EXCEPT
                         ![c].fan = sent(Empty),
                         ![c].ups = Extended(@, id, Unresolved)]
                ELSE \E up \in Upstreams :
                         client' = [client EXCEPT
                             ![c].fan = sent(Entry(up)),
                             ![c].ups = Extended(@, id, up)]
    /\ UNCHANGED <<store, orch, nextID, faults, background, issued>>
    /\ SetHeap(heap)

\* defer wg.Done() of a goroutine that has sent.
BatchTaskDone(c) ==
    /\ NoneDone
    /\ UNCHANGED run
    /\ client[c].pc = "batch_fetch"
    /\ \E id \in DOMAIN client[c].want :
          /\ client[c].fan.tasks[id] = "sent"
          /\ client' = [client EXCEPT ![c].fan.tasks[id] = "done"]
    /\ UNCHANGED <<store, orch, nextID, faults, background, issued>>
    /\ SetHeap(heap)

\* The closing goroutine: wg.Wait() returns with every Done made, then
\* close(resultsCh).
BatchClose(c) ==
    /\ NoneDone
    /\ UNCHANGED run
    /\ client[c].pc = "batch_fetch"
    /\ client[c].fan.closes = 0
    /\ \A id \in DOMAIN client[c].want : client[c].fan.tasks[id] = "done"
    /\ client' = [client EXCEPT ![c].fan.closes = @ + 1]
    /\ UNCHANGED <<store, orch, nextID, faults, background, issued>>
    /\ SetHeap(heap)

\* for res := range resultsCh: one result is taken into the response map.
BatchReceive(c) ==
    /\ NoneDone
    /\ UNCHANGED run
    /\ client[c].pc = "batch_fetch"
    /\ client[c].fan.chan # <<>>
    /\ LET res == Head(client[c].fan.chan)
       IN client' = [client EXCEPT
              ![c].got = Extended(@, res[1], res[2]),
              ![c].fan.chan = Tail(@)]
    /\ UNCHANGED <<store, orch, nextID, faults, background, issued>>
    /\ SetHeap(heap)

\* The range loop ends on the closed and empty channel: respondJSON with
\* status 200.
BatchRespond(c) ==
    /\ NoneDone
    /\ UNCHANGED run
    /\ client[c].pc = "batch_fetch"
    /\ client[c].fan.chan = <<>>
    /\ client[c].fan.closes > 0
    /\ client' = [client EXCEPT ![c].pc = "done", ![c].code = 200,
                                ![c].outBody = Encode(client[c].got)]
    /\ UNCHANGED <<store, orch, nextID, faults, background, issued>>
    /\ SetHeap(heap)

\* The goroutines of a batch request that is under way.
BatchFanOut(c) ==
    \/ BatchFetch(c)
    \/ BatchTaskDone(c)
    \/ BatchClose(c)
    \/ BatchReceive(c)
    \/ BatchRespond(c)

BatchGetConversations(c) ==
    \/ BatchLookup(c)
    \/ BatchFanOut(c)

\* The process with the batch endpoint, one activity at a time.
BatchNext ==
    \/ \E c \in Clients : Request(c) \/ Return(c)
    \/ \E c \in Clients : BatchGetConversations(c)
    \/ Reconcile
    \/ Reaper
    \/ Restart

BatchInit == InitWith(1, MaxBatchActivities, MaxFaults)

BatchSpec == BatchInit /\ [][BatchNext]_vars

\* One life of the process with start and batch requests, in which every
\* goroutine of a batch that can take a step takes one in the end (an upstream
\* call ends with its 10 s timeout at the latest).
FanOutNext ==
    \E c \in Clients :
        \/ StartRuntime(c)
        \/ BatchGetConversations(c)
        \/ Return(c)

FanOutSpec ==
    /\ BatchInit
    /\ [][FanOutNext]_vars
    /\ \A c \in Clients : WF_vars(BatchFanOut(c))

\* ------------------------------------------------------------------ the router
\* Requests the modelled handlers are registered for behind the middleware;
\* /sandbox/ with nothing after it is routed to the proxy handler as well.
Routed ==
    {<<op, "", r>> : op \in {"stop", "pause", "resume", "get"}, r \in RuntimeIDs}
        \cup {<<op, s, 0>> : op \in {"start", "session"}, s \in Sessions}
        \cup {<<"proxy", "", r>> : r \in RuntimeIDs \cup {0}}

\* AuthMiddleware turns the request away: 401, and the handler is not called.
Unauthorized(c) ==
    /\ Admitted(workers)
    /\ Quiet(c)
    /\ \E q \in Routed, k \in Keys :
          /\ ~AuthMiddleware(Path(q[1], q[2], q[3]), k)
          /\ client' = [client EXCEPT ![c] =
                 [Begin(c, k, q[1], q[2], q[3], "done") EXCEPT !.code = 401]]
    /\ UNCHANGED <<store, orch, nextID, faults, background, issued>>
    /\ SetHeap(heap)

\* /health, /liveness, /readiness: registered on the router itself, before the
\* middleware; the answer is OK whatever the key.
Health(c) ==
    /\ Admitted(workers)
    /\ Quiet(c)
    /\ \E k \in Keys :
          client' = [client EXCEPT ![c] =
              [Begin(c, k, "health", "", 0, "done") EXCEPT !.code = 200]]
    /\ UNCHANGED <<store, orch, nextID, faults, background, issued>>
    /\ SetHeap(heap)

\* The process behind its router, with requests of any key.
RoutedNext ==
    \/ \E c \in Clients : Request(c) \/ Return(c)
    \/ \E c \in Clients : Unauthorized(c) \/ Health(c)
    \/ Reconcile
    \/ Reaper
    \/ Restart

RoutedInit == InitWith(MaxInFlight, MaxRoutedActivities, MaxFaults)

RoutedSpec == RoutedInit /\ [][RoutedNext]_vars

\* ------------------------------------------------------------------ properties
\* C2..C6 are stated for every interleaving (Spec); C1 and C7..C10 are what one
\* request leaves behind when nothing else runs beside it (SerialSpec). C18 is
\* about two replicas (ReplicaSpec); C15, C19 and C20 are about ages, and need
\* the clock (TimedSpec), as do C21 and C22. C23 is checked behind the router
\* (RoutedSpec), C27 with an orchestrator that may fail twice (UndoSpec), C28 on
\* GetPodStatus alone (StatusSpec), C29 with the batch endpoint (BatchSpec) and
\* C30 and C31 on one life of the process up to its exit (ShutdownSpec). C32 is
\* about WaitForPodReady alone (WaitSpec); C33, C38 and C40 are serial; C34 has
\* starts and stops beside the background cleaners (RaceSpec), C36 the four
\* lifecycle requests (LifecycleSpec), C37 the reaper with its clock
\* (IdleReapSpec) and C39 the goroutines of a batch under fairness (FanOutSpec).
\* The worker has just written the response `code` to a request `op`.
Done(c, op, code) ==
    client[c].pc = "done" /\ client[c].op = op /\ client[c].code = code

\* Workloads (pods) in the orchestrator that carry the session label s.
WorkloadsOf(s) == {r \in RuntimeIDs : PodExists(r) /\ pods[r].sid = s}

\* The record of runtime r in the store, by its runtime_id.
RecordOf(r) == heap[runtimeByID[r]]

\* Earlier successful starts of the session of c's request whose record is
\* still in the store.
Prior(c) ==
    {t \in issued : /\ t[1] = client[c].sid
                    /\ t[2] # client[c].rid
                    /\ runtimeByID[t[2]] # 0}

C2_OneWorkloadPerSession ==
    \A s \in Sessions : Cardinality(WorkloadsOf(s)) <= 1

\* C3: no two records of the store, under different runtime_ids, have the
\* same session_id.
C3_SessionUnique ==
    \A r1, r2 \in RuntimeIDs :
        (/\ runtimeByID[r1] # 0
         /\ runtimeByID[r2] # 0
         /\ RecordOf(r1).sid = RecordOf(r2).sid) => r1 = r2

\* C4: the runtime_id index and the session_id index hold exactly the same
\* records.
C4_IndicesAgree ==
    Range(runtimeByID) \ {0} = Range(runtimeBySession) \ {0}

\* C5: when a start answers 200, the runtime_id of the response is that of a
\* record in the store.
C5_ReturnedIdInStore ==
    \A c \in Clients :
        Done(c, "start", 200) =>
            /\ runtimeByID[client[c].outRid] # 0
            /\ RecordOf(client[c].outRid).rid = client[c].outRid

\* C6 (as stated): every record with status pending or running has a workload
\* runtime-{id} that exists or has existed.
C6_PendingOrRunningHadWorkload ==
    \A r \in RuntimeIDs :
        (runtimeByID[r] # 0 /\ RecordOf(r).status \in {StatusPending, StatusRunning})
            => RecordOf(r).rid \in everPod

\* C6 (amended): every record with status running has a workload runtime-{id}
\* that exists or has existed; a pending record is stored before its workload
\* is requested.
C6_RunningHadWorkload ==
    \A r \in RuntimeIDs :
        (runtimeByID[r] # 0 /\ RecordOf(r).status = StatusRunning)
            => RecordOf(r).rid \in everPod

C6_Witness ==
    \E r \in RuntimeIDs :
        /\ runtimeByID[r] # 0
        /\ RecordOf(r).status = StatusRunning
        /\ r \in everPod
        /\ ~PodExists(r)

\* C7: when the orchestrator create fails, the pending record is in neither
\* index by the time sandbox_creation_failed (500) is answered.
C7_RollbackRemovesRecord ==
    \A c \in Clients :
        Done(c, "start", 500) =>
            /\ runtimeByID[client[c].rid] = 0
            /\ client[c].ptr \notin Stored

C7_Witness ==
    \E c \in Clients : Done(c, "start", 500) /\ client[c].calls > 0

\* C8: when stop(R) answers 200, a get by runtime_id R finds nothing (404) and
\* no ingress, service or workload runtime-R exists.
C8_StopRemovesEverything ==
    \A c \in Clients :
        Done(c, "stop", 200) =>
            /\ GetRuntimeByID(client[c].rid) = 0
            /\ ~PodExists(client[c].rid)
            /\ ~Present(services[client[c].rid])
            /\ ~Present(ingresses[client[c].rid])

C8_Witness ==
    \E c \in Clients :
        /\ Done(c, "stop", 200)
        /\ client[c].rid \in everPod
        /\ services[client[c].rid] < 0
        /\ ingresses[client[c].rid] < 0

\* C9: when pause(R) answers 200, the record is paused with pod_status
\* not-found, the workload is gone, and the service and the ingress are the
\* ones that were there before the pause.
C9_PauseKeepsServiceAndIngress ==
    \A c \in Clients :
        Done(c, "pause", 200) =>
            /\ runtimeByID[client[c].rid] # 0
            /\ RecordOf(client[c].rid).status = StatusPaused
            /\ RecordOf(client[c].rid).podStatus = PodStatusNotFound
            /\ ~PodExists(client[c].rid)
            /\ services[client[c].rid] = client[c].pre[1]
            /\ ingresses[client[c].rid] = client[c].pre[2]

C9_Witness ==
    \E c \in Clients :
        /\ Done(c, "pause", 200)
        /\ Present(services[client[c].rid])
        /\ Present(ingresses[client[c].rid])

\* C10: pause(R) then resume(R) on a running R leaves the record running, the
\* workload present, and the service and the ingress the same objects as
\* before the pause, neither deleted nor created again.
C10_PauseResumeRestores ==
    \A c \in Clients :
        (Done(c, "resume", 200) /\ client[c].pre # <<>>) =>
            /\ runtimeByID[client[c].rid] # 0
            /\ RecordOf(client[c].rid).status = StatusRunning
            /\ PodExists(client[c].rid)
            /\ services[client[c].rid] = client[c].pre[1]
            /\ ingresses[client[c].rid] = client[c].pre[2]

C10_Witness ==
    \E c \in Clients :
        /\ Done(c, "resume", 200)
        /\ client[c].pre # <<>>
        /\ Present(client[c].pre[1])
        /\ Present(client[c].pre[2])

\* The step in which client c sends resume(r) while the store holds a record
\* of r whose status satisfies the test.
ResumeArrives(c, r) ==
    /\ Quiet(c)
    /\ client'[c].op = "resume"
    /\ client'[c].rid = r
    /\ runtimeByID[r] # 0

\* What a handler leaves alone when it neither calls the orchestrator nor
\* writes the record of r.
Untouched(r) ==
    /\ orch' = orch
    /\ runtimeByID' = runtimeByID
    /\ runtimeBySession' = runtimeBySession
    /\ heap'[runtimeByID[r]] = heap[runtimeByID[r]]

\* C11: resume(R) on a record whose status is running makes no orchestrator
\* call, leaves the record unchanged, and returns the current record with
\* success (200).
C11_ResumeRunningIsNoOp ==
    [][\A c \in Clients, r \in RuntimeIDs :
          (ResumeArrives(c, r) /\ RecordOf(r).status = StatusRunning)
          => /\ Untouched(r)
             /\ client'[c].pc = "done"
             /\ client'[c].code = 200
             /\ client'[c].calls = 0
             /\ client'[c].outRid = r
             /\ client'[c].outKey = RecordOf(r).key
             /\ client'[c].outStatus = StatusRunning]_vars

\* A resume has answered 200 for a running record without any orchestrator
\* call.
C11_Witness ==
    \E c \in Clients :
        /\ Done(c, "resume", 200)
        /\ client[c].calls = 0
        /\ runtimeByID[client[c].rid] # 0
        /\ RecordOf(client[c].rid).status = StatusRunning

\* C12: resume(R) on an existing record whose status is neither running nor
\* paused fails with invalid_state (400), makes no orchestrator call and
\* leaves the record unchanged.
C12_ResumeInvalidState ==
    [][\A c \in Clients, r \in RuntimeIDs :
          (ResumeArrives(c, r)
             /\ RecordOf(r).status \notin {StatusRunning, StatusPaused})
          => /\ Untouched(r)
             /\ client'[c].pc = "done"
             /\ client'[c].code = 400
             /\ client'[c].calls = 0]_vars

\* A resume has answered 400 for a record that is pending or stopped.
C12_Witness ==
    \E c \in Clients :
        /\ Done(c, "resume", 400)
        /\ client[c].calls = 0
        /\ runtimeByID[client[c].rid] # 0
        /\ RecordOf(client[c].rid).status \in {StatusPending, StatusStopped}

\* C13: a management request (get by runtime_id, get by session_id, stop,
\* pause, resume) whose id has no record in the store performs on-demand
\* discovery when a labelled workload for that id exists, and answers
\* not-found only when no such workload is found: a 404 is never given while
\* a workload carrying the requested id exists.
C13_NotFoundOnlyWithoutWorkload ==
    \A c \in Clients :
        (/\ client[c].pc = "done"
         /\ client[c].code = 404
         /\ client[c].op \in {"get", "session", "stop", "pause", "resume"})
        => IF client[c].op = "session"
           THEN WorkloadsOf(client[c].sid) = {}
           ELSE ~PodExists(client[c].rid)

\* The record that discovery rebuilds from the workload labelled runtime-id r.
Rediscovered(r) ==
    buildRuntimeInfoFromPod(r, pods[r].sid, pods[r].key, GetPodStatus(r))

\* Discovery of r gives back the identity of the stored record of r.
SameIdentity(r) ==
    /\ Rediscovered(r).rid = RecordOf(r).rid
    /\ Rediscovered(r).sid = RecordOf(r).sid
    /\ Rediscovered(r).key = RecordOf(r).key

\* C14 (as stated): for every stored record with status pending or running,
\* rediscovery from the orchestrator labels yields a record with the same
\* session_id, runtime_id and session_api_key.
C14_RediscoveryYieldsSameRecord ==
    \A r \in RuntimeIDs :
        (runtimeByID[r] # 0
           /\ RecordOf(r).status \in {StatusPending, StatusRunning})
        => PodExists(r) /\ SameIdentity(r)

\* C14 (amended): for every stored record with status pending or running
\* whose workload exists in the orchestrator, the record rebuilt from that
\* workload's labels and environment has the same session_id, runtime_id and
\* session_api_key.
C14_RediscoveryOfExistingWorkload ==
    \A r \in RuntimeIDs :
        (runtimeByID[r] # 0
           /\ RecordOf(r).status \in {StatusPending, StatusRunning}
           /\ PodExists(r))
        => SameIdentity(r)

\* A session whose start had answered 200 was looked up after the store was
\* lost, found by its label, and answered with the ids the start had issued.
C14_Witness ==
    \E c \in Clients, t \in issued :
        /\ Done(c, "session", 200)
        /\ client[c].hit = t[2]
        /\ client[c].sid = t[1]
        /\ client[c].outRid = t[2]
        /\ client[c].outKey = t[3]
        /\ runtimeByID[t[2]] # 0
        /\ PodExists(t[2])

\* A step of the reconcile loop's body (a restart also leaves the loop, and
\* begins a new activity).
ReconcileStep ==
    /\ reconciler.pc = "adding"
    /\ reconciler' # reconciler
    /\ begun' = begun

\* Every record the id index held is still there, the same object with the
\* same content.
RecordsKept ==
    \A r \in RuntimeIDs :
        runtimeByID[r] # 0
        => /\ runtimeByID'[r] = runtimeByID[r]
           /\ heap'[runtimeByID[r]] = heap[runtimeByID[r]]

\* Every entry of the session index still leads to the record it led to.
SessionEntriesKept ==
    \A s \in Sessions :
        runtimeBySession[s] # 0 => runtimeBySession'[s] = runtimeBySession[s]

\* C16: no reconciler step removes or overwrites a record already in the
\* State Store: every record present before a sweep is present, under both
\* of its indices, and unchanged after it, even when its workload is missing
\* from the orchestrator.
C16_ReconcilerKeepsRecords ==
    [][ReconcileStep => RecordsKept /\ SessionEntriesKept]_vars

\* C17: after a periodic sweep whose orchestrator listing succeeded, every
\* listed sandbox workload has a record with its runtime_id in the State
\* Store, also when startup discovery had failed and the store started empty.
C17_SweepRecordsEveryListedWorkload ==
    (reconciler.pc = "adding" /\ reconciler.list = {})
    => \A rt \in reconciler.listed : runtimeByID[rt.rid] # 0

\* A sweep has run through a listing of workloads whose starts had succeeded
\* and none of which the store knew any more (a restart whose startup discovery
\* failed had emptied it), and every one of them has a record again.
C17_Witness ==
    /\ reconciler.pc = "adding"
    /\ reconciler.list = {}
    /\ reconciler.listed # {}
    /\ reconciler.added = Cardinality(reconciler.listed)
    /\ faults > 0
    /\ \A rt \in reconciler.listed :
          /\ runtimeByID[rt.rid] # 0
          /\ PodExists(rt.rid)
          /\ \E t \in issued : t[2] = rt.rid

\* The runtime_ids each replica's store holds a record for.
StoreIds == {r \in RuntimeIDs : runtimeByID[r] # 0}
PeerIds == {r \in RuntimeIDs : peer.byID[r] # NoRec}

\* C18: with two replicas, each with its own State Store over the same
\* orchestrator, once management operations have ceased and every replica has
\* completed a sweep, the stores hold records for the same set of runtime_ids,
\* whatever operations one replica served before. (This replica's sweep has
\* run through its listing, the other replica has swept since that sweep
\* began, and nothing else is in flight.)
C18_ReplicasConverge ==
    (/\ reconciler.pc = "adding"
     /\ reconciler.list = {}
     /\ peer.at = begun
     /\ InFlight = 1)
    => StoreIds = PeerIds

\* The step of a restart: a new activity after which nothing is in flight.
RestartStep ==
    /\ begun' = begun + 1
    /\ \A c \in Clients : client'[c].pc = "idle"
    /\ reconciler'.pc = "idle"
    /\ reaper'.pc = "idle"
    /\ cleaner'.pc = "idle"

\* C15: a record reconstructed by discovery (on demand, by the sweep or at
\* startup) has created_at equal to the creation timestamp the orchestrator
\* recorded for the workload, the current time only if there is none, so
\* that its age is not counted from the discovery.
C15_DiscoveredCreatedAtIsPodStamp ==
    [][\A h \in Handles :
          (/\ heap[h] = NoRec \/ RestartStep
           /\ heap'[h] # NoRec
           /\ heap'[h].status = StatusRunning)
          => /\ PodExists(heap'[h].rid)
             /\ heap'[h].createdAt =
                   IF pods[heap'[h].rid].created = NoStamp THEN now
                   ELSE pods[heap'[h].rid].created]_vars

\* A session was found by discovery some time after its workload had been
\* created, and the record added to the store bears the workload's stamp.
C15_Witness ==
    \E c \in Clients :
        /\ Done(c, "session", 200)
        /\ client[c].hit # 0
        /\ runtimeByID[client[c].hit] = client[c].ptr
        /\ PodExists(client[c].hit)
        /\ heap[client[c].ptr].createdAt = pods[client[c].hit].created
        /\ heap[client[c].ptr].createdAt < now

\* The record the cleanup service has just dealt with is in neither index of
\* the store and none of its orchestrator objects exists.
CleanedUp ==
    LET h == cleaner.ptr
        r == heap[h].rid
    IN /\ \A q \in RuntimeIDs : runtimeByID[q] # h
       /\ \A s \in Sessions : runtimeBySession[s] # h
       /\ runtimeByID[r] = 0
       /\ ~PodExists(r)
       /\ ~Present(services[r])
       /\ ~Present(ingresses[r])

C20_IdleReapOnlyAfterIdleThreshold ==
    (cleaner.pc = "seen" /\ cleaner.reason = "pod_idle" /\ ~cleaner.errs)
    => cleaner.idleFor >= IdleThreshold

C22_ProxySetsLastActivity ==
    \A c \in Clients :
        Done(c, "proxy", 200)
        => /\ runtimeByID[client[c].rid] # 0
           /\ RecordOf(client[c].rid).rid = client[c].rid
           /\ RecordOf(client[c].rid).lastActivity = now

\* A proxy request has been accepted for a record found in the store that was
\* created at an earlier time.
C22_Witness ==
    \E c \in Clients :
        /\ Done(c, "proxy", 200)
        /\ client[c].hit = 0
        /\ runtimeByID[client[c].rid] # 0
        /\ RecordOf(client[c].rid).createdAt < now
        /\ RecordOf(client[c].rid).lastActivity = now

\* The request c has in hand is one the middleware lets through whatever its
\* key: a health check, or a path under /sandbox/{runtime_id}.
Bypasses(cl) ==
    \/ cl.op = "health"
    \/ cl.op = "proxy" /\ cl.rid # 0

Deletes(r) ==
    /\ ~RestartStep
    /\ runtimeByID[r] # 0
    /\ runtimeByID'[r] = 0

\* C24: delete(runtime_id) removes the record from the runtime_id index and
\* from the session_id index in one atomic step: in the state the deleting step
\* leaves, which is the first a concurrent reader can see, the record is found
\* through neither index.
C24_DeleteClearsBothIndices ==
    [][\A r \in RuntimeIDs :
          Deletes(r)
          => /\ \A q \in RuntimeIDs : runtimeByID'[q] # runtimeByID[r]
             /\ \A s \in Sessions : runtimeBySession'[s] # runtimeByID[r]]_vars

\* A stop has deleted the record it found under both indices while another
\* request was under way.
C24_Witness ==
    \E c, d \in Clients :
        /\ Done(c, "stop", 200)
        /\ client[c].ptr # 0
        /\ client[c].ptr \notin Stored
        /\ client[d].pc \notin {"idle", "done"}
        /\ client[d].op \in {"get", "session", "proxy"}

\* C25: under concurrent readers and writers, a reader of a record observes
\* either the complete old or the complete new version of it, never a mixture
\* of fields from before and after an update: no response to a start, get or
\* session request shows status paused with a pod_status other than not-found
\* read from a record that a pause is half-way through writing.
C25_ReaderSeesWholeVersion ==
    \A c, d \in Clients :
        (/\ c # d
         /\ client[c].pc = "done"
         /\ client[c].code = 200
         /\ client[c].op \in {"start", "get", "session"}
         /\ client[d].op = "pause"
         /\ client[d].pc = "pause_setpod"
         /\ client[d].ptr = client[c].ptr)
        => ~(/\ client[c].outStatus = StatusPaused
             /\ client[c].outPodStatus # PodStatusNotFound)

\* DeleteSandbox has returned to the stop handler of c: with an error when the
\* handler answers 500, without one when it goes on to mark the record stopped.
DeleteSandboxFailed(c) == Done(c, "stop", 500)
DeleteSandboxSucceeded(c) ==
    client[c].op = "stop" /\ client[c].pc = "stop_setstopped"

\* C26: DeleteSandbox attempts deletion of the ingress, then the service, then
\* the workload, continuing after any failure; it returns success if and only
\* if each of the three deletions either succeeded or reported not-found.
C26_DeleteSandboxTriesAllThree ==
    \A c \in Clients :
        (DeleteSandboxFailed(c) \/ DeleteSandboxSucceeded(c))
        => /\ Len(client[c].tried) = 3
           /\ client[c].tried[1][1] = "ingress"
           /\ client[c].tried[2][1] = "service"
           /\ client[c].tried[3][1] = "pod"
           /\ DeleteSandboxSucceeded(c)
                <=> \A i \in 1..3 : client[c].tried[i][2] \in {"deleted", "not_found"}

\* The ingress could not be deleted; service and workload were deleted all the
\* same, and DeleteSandbox returned the error.
C26_Witness ==
    \E c \in Clients :
        /\ DeleteSandboxFailed(c)
        /\ client[c].tried = <<<<"ingress", "error">>, <<"service", "deleted">>,
                               <<"pod", "deleted">>>>
        /\ ~PodExists(client[c].rid)
        /\ Present(ingresses[client[c].rid])

\* CreateSandbox has failed for the start request of c after creating at least
\* the workload.
CreateSandboxFailedLate(c) ==
    /\ Done(c, "start", 500)
    /\ client[c].calls > 1

\* Nothing of runtime r is left in the orchestrator.
NothingLeft(r) ==
    /\ ~PodExists(r)
    /\ ~Present(services[r])
    /\ ~Present(ingresses[r])

CrashLooping(pod) ==
    \E i \in 1..Len(pod.containers) : pod.containers[i].waiting = "CrashLoopBackOff"

\* C28: GetPodStatus returns not-found when the workload is absent, failed
\* when the phase is failed, crash-loop whenever any container is waiting with
\* reason CrashLoopBackOff, ready only when the phase is running and every
\* container reports ready, and otherwise running (phase running) or pending.
\* The cases are taken in the order in which the sentence gives them.
C28_GetPodStatusCases ==
    probe.status # ""
    => LET pod == probe.pod
       IN probe.status =
            IF ~pod.found THEN PodStatusNotFound
            ELSE IF pod.phase = "Failed" THEN PodStatusFailed
            ELSE IF CrashLooping(pod) THEN PodStatusCrashLoopBackOff
            ELSE IF /\ pod.phase = "Running"
                    /\ Len(pod.containers) > 0
                    /\ \A i \in 1..Len(pod.containers) : pod.containers[i].ready
                 THEN PodStatusReady
            ELSE IF pod.phase = "Running" THEN PodStatusRunning
            ELSE PodStatusPending

\* The entry id of c's batch did not yield conversations: no record, a failed
\* upstream call, or an upstream status outside 2xx.
EntryFailed(c, id) ==
    LET up == client[c].ups[id]
    IN ~up.found \/ up.err \/ up.code \notin 200..299

\* C29: for any batch-conversations request with a non-empty sandboxes map,
\* the response is a success containing exactly one entry per requested
\* runtime_id; an entry whose record cannot be resolved, whose upstream call
\* fails, or whose upstream status is non-2xx has the value [] and never causes
\* the batch to fail.
C29_BatchAnswersEveryEntry ==
    \A c \in Clients :
        (Done(c, "batch", client[c].code) /\ DOMAIN client[c].want # {})
        => /\ client[c].code = 200
           /\ client[c].outBody.written
           /\ DOMAIN client[c].outBody.entries = DOMAIN client[c].want
           /\ \A id \in DOMAIN client[c].want :
                 EntryFailed(c, id) => client[c].outBody.entries[id] = Empty

\* C30 (as stated): on a shutdown signal the process first stops accepting new
\* requests, then cancels the Reaper and Reconciler, then drains in-flight
\* handlers for at most the graceful timeout, then exits, in that order: the
\* loops are cancelled only once the listener is closed, the listener is
\* closed before the exit, and the exit comes when no handler is in flight or
\* the timeout has run out.
C30_ShutdownOrder ==
    /\ (~life.reaping \/ ~life.reconciling) => ~life.listening
    /\ life.pc = "exited"
         => /\ ~life.listening /\ ~life.reaping /\ ~life.reconciling
            /\ life.killed => life.expired

\* C30 (amended): the Reconciler is cancelled and the Reaper and the cleanup
\* service are stopped first, then the listener is closed, then in-flight
\* handlers are drained for at most the graceful timeout, then the process
\* exits.
C30_ShutdownOrderLoopsFirst ==
    /\ ~life.reaping => ~life.reconciling
    /\ ~life.cleaning => ~life.reaping
    /\ ~life.listening => ~life.cleaning
    /\ life.pc = "exited" => ~life.listening
    /\ life.pc = "exited" /\ life.killed => life.expired

\* The process has exited within the timeout after waiting for a handler that
\* was in flight when the listener closed.
C30_Witness ==
    /\ life.pc = "exited"
    /\ life.waited
    /\ ~life.killed
    /\ ~life.expired

\* C31: no background task, and no start, tick or stop of the reconciler, the
\* reaper or the cleanup service, the stop calls of the shutdown included, ends
\* the process in a panic.
C31_BackgroundNeverPanics == ~life.panicked

\* The polls of the call that got ready, failed or crash-loop from GetPodStatus.
Decisive(w) ==
    {i \in 1..Len(w.seen) :
        w.seen[i] \in {PodStatusReady, PodStatusFailed, PodStatusCrashLoopBackOff}}

\* What a returned call says of its polls and of its timeout.
WaitCases(w) ==
    /\ \A i \in Decisive(w) :
          /\ i = Len(w.seen)
          /\ w.pc = "returned"
          /\ w.result = IF w.seen[i] = PodStatusReady THEN "ok" ELSE "failed"
    /\ w.result \in {"ok", "failed"} => Decisive(w) # {}
    /\ w.result = "timeout" => w.elapsed >= w.timeout /\ Decisive(w) = {}
    /\ w.pc = "returned" <=> w.result # ""

\* C32: WaitForPodReady always returns: with success at the first poll that
\* sees ready, with an error at the first poll that sees failed or crash-loop,
\* and with a timeout error only once the timeout has passed with neither seen.
C32_WaitForPodReadyReturns ==
    /\ <>(wait.pc = "returned")
    /\ [](wait.pc # "" => WaitCases(wait))

\* A call that polled, saw the pod still pending, and then timed out.
C32_Witness ==
    /\ wait.pc = "returned"
    /\ wait.result = "timeout"
    /\ Len(wait.seen) >= 1
    /\ wait.seen[1] = PodStatusPending

\* C33: a not-found of the orchestrator on a delete path is a success: a
\* pause(R) on a record whose workload is absent already answers 200 and leaves
\* the record paused with pod_status not-found.
C33_PauseOfAbsentWorkloadSucceeds ==
    \A c \in Clients :
        (/\ client[c].pc = "done"
         /\ client[c].op = "pause"
         /\ client[c].tried = <<<<"pod", "not_found">>>>)
        => /\ client[c].code = 200
           /\ runtimeByID[client[c].rid] # 0
           /\ RecordOf(client[c].rid).status = StatusPaused
           /\ RecordOf(client[c].rid).podStatus = PodStatusNotFound

\* DeleteSandbox has returned nil to a stop handler, to the reaper or to the
\* cleanup service, which holds the record h and has yet to finish with the store.
StopPast(c) ==
    /\ client[c].op = "stop"
    /\ client[c].pc \in {"stop_setstopped", "stop_update", "stop_delete"}
ReaperPast == reaper.pc \in {"reap_setstopped", "reap_update", "reap_delete"}
CleanerPast == cleaner.pc = "clean_delete"
PastDelete(h) ==
    \/ \E c \in Clients : StopPast(c) /\ client[c].ptr = h
    \/ ReaperPast /\ reaper.ptr = h
    \/ CleanerPast /\ cleaner.ptr = h

\* Such a side has lost the race: another one has removed the record already.
\* The record is that of a start that has answered, so that no start is among
\* those that act on it.
LostRace(h) ==
    /\ PastDelete(h)
    /\ runtimeByID[heap[h].rid] = 0
    /\ \E t \in issued : t[2] = heap[h].rid

\* No index leads to a record of runtime r.
Unindexed(r) ==
    /\ runtimeByID[r] = 0
    /\ \A s \in Sessions :
          runtimeBySession[s] # 0 => heap[runtimeBySession[s]].rid # r

\* C34: when a reaper tick and an API stop, or two background cleaners, act on
\* the same record at the same time, the result is that of a serial order: from
\* the moment one side has removed the record, every step, the other side's
\* status update and delete included, leaves the record out of both indices and
\* its workload, service and ingress deleted.
C34_RacingRemovalsAgree ==
    [][\A h \in Handles, r \in RuntimeIDs :
          (LostRace(h) /\ heap[h].rid = r) => (Unindexed(r) /\ NothingLeft(r))']_vars

\* The reaper is about to update a record that a stop has removed meanwhile.
C34_Witness ==
    /\ reaper.pc = "reap_update"
    /\ LostRace(reaper.ptr)
    /\ heap[reaper.ptr].status = StatusStopped

\* The record of r has been removed and its workload deleted: r had a workload
\* once, has none now, and is not in the store.
RemovedAndGone(r) ==
    /\ r \in everPod
    /\ ~PodExists(r)
    /\ runtimeByID[r] = 0

\* C35: a record removed by stop, by a reaper or by the rollback of a failed
\* start is not put back by a reconciler sweep or a discovery that listed its
\* workload before the deletion: once the record is removed and the workload
\* gone, no step stores a record under that runtime_id again.
C35_RemovedRecordStaysRemoved ==
    [][\A r \in RuntimeIDs :
          (RemovedAndGone(r) /\ ~PodExists(r)') => runtimeByID'[r] = 0]_vars

\* C36: when stop(R) runs at the same time as resume(R) on a paused record, then
\* once both have returned and the stop has succeeded (the record, the service
\* and the ingress are removed) there is no workload runtime-R: the resume that
\* answers last leaves none.
C36_StopBeatsResume ==
    \A d \in Clients :
        (/\ Done(d, "resume", 200)
         /\ runtimeByID[client[d].rid] = 0
         /\ services[client[d].rid] < 0
         /\ ingresses[client[d].rid] < 0
         /\ \A c \in Clients \ {d} : client[c].pc = "idle")
        => ~PodExists(client[d].rid)

\* The scan step of a reaper tick takes the record h to reap it, or passes it
\* over.
ReaperTakes(h) ==
    reaper.pc = "scan" /\ reaper'.pc = "reap_ing" /\ reaper'.ptr = h
ReaperPasses(h) ==
    /\ ~RestartStep
    /\ reaper.pc = "scan"
    /\ h \in reaper.snap
    /\ h \notin reaper'.snap
    /\ reaper'.ptr # h

\* The record is running and its last activity is more than the idle timeout
\* before the tick.
IdleRunning(info) ==
    /\ info.status = StatusRunning
    /\ reaper.at - info.lastActivity > IdleTimeout

\* C37: on a tick of the idle reaper a record is reaped only if it is running
\* and the time since its last activity strictly exceeds the idle timeout;
\* running records active within the timeout and paused records are passed
\* over and stay in the store.
C37_ReaperTakesOnlyIdleRunning ==
    [][\A h \in Handles :
          /\ ReaperTakes(h) => IdleRunning(heap[h])
          /\ ReaperPasses(h) => (~IdleRunning(heap[h]) /\ UNCHANGED store)]_vars

\* The tick has taken a running record idle for longer than the timeout, has
\* deleted its sandbox and is about to remove it from the store.
C37_Witness ==
    /\ reaper.pc = "reap_delete"
    /\ reaper.at - heap[reaper.ptr].lastActivity > IdleTimeout
    /\ NothingLeft(heap[reaper.ptr].rid)

\* C38: when a delete call of stop(R) fails with an error other than not-found,
\* stop answers 500 (sandbox_deletion_failed) and the record of R stays in the
\* store, with the status it had and under the session index if it was there,
\* so that the stop can be tried again.
C38_FailedStopKeepsRecord ==
    \A c \in Clients :
        (client[c].pc = "done" /\ client[c].op = "stop"
         /\ \E i \in 1..Len(client[c].tried) : client[c].tried[i][2] = "error")
        => /\ client[c].code = 500
           /\ runtimeByID[client[c].rid] = client[c].ptr
           /\ (runtimeBySession[RecordOf(client[c].rid).sid] = client[c].ptr)
                  = client[c].pre[2]
           /\ RecordOf(client[c].rid).status = client[c].pre[1]

\* The pod could not be deleted: the stop has answered 500 and the record is
\* still the running one.
C38_Witness ==
    \E c \in Clients :
        /\ Done(c, "stop", 500)
        /\ client[c].tried[3] = <<"pod", "error">>
        /\ runtimeByID[client[c].rid] # 0
        /\ client[c].pre[2]
        /\ RecordOf(client[c].rid).status = StatusRunning

\* The fan-out of c's batch request keeps to the rules of its channel.
FanOutSafe(c) ==
    LET f == client[c].fan
        ids == DOMAIN client[c].want
    IN /\ \A id \in ids : f.sends[id] = IF f.tasks[id] = "run" THEN 0 ELSE 1
       /\ (\E id \in ids : f.tasks[id] = "run") => Len(f.chan) < f.cap
       /\ ~f.late
       /\ f.closes <= 1
       /\ f.closes = 1 => \A id \in ids : f.tasks[id] = "done"
       /\ client[c].pc = "done"
            => /\ f.closes = 1
               /\ f.chan = <<>>
               /\ DOMAIN client[c].got = ids

\* C39: in the batch fan-out each per-entry task sends exactly one result, no
\* send blocks or comes after the close of the results channel, and the channel
\* is closed exactly once, after all tasks have finished; so the aggregation
\* always ends, with one result per entry.
C39_FanOutSendsOncePerEntry ==
    /\ [](\A c \in Clients : DOMAIN client[c].want # {} => FanOutSafe(c))
    /\ \A c \in Clients : (client[c].pc = "batch_fetch") ~> (client[c].pc = "done")

\* A batch of two entries has been answered, one of them from an upstream call.
C39_Witness ==
    \E c \in Clients :
        /\ Done(c, "batch", 200)
        /\ Cardinality(DOMAIN client[c].want) = 2
        /\ client[c].fan.closes = 1
        /\ \E id \in DOMAIN client[c].want : client[c].ups[id].found

\* Something of sandbox r is left in the orchestrator.
SomethingLeft(r) == ~NothingLeft(r)

\* What deletes orchestrator objects (stop, the background cleaners, a start
\* that undoes) starts from a record: one in the store, one that discovery
\* rebuilds from a listed pod, or one an activity under way holds or has in
\* its listing.
InReach(r) ==
    \/ runtimeByID[r] # 0
    \/ PodExists(r)
    \/ \E h \in Handles : heap[h] # NoRec /\ heap[h].rid = r
    \/ \E rt \in reconciler.list : rt.rid = r

\* Objects out of reach stay: no step deletes one or brings it back in reach.
OutOfReachStays ==
    [][\A r \in RuntimeIDs :
          (SomethingLeft(r) /\ ~InReach(r))
              => /\ (SomethingLeft(r) /\ ~InReach(r))'
                 /\ services'[r] = services[r]
                 /\ ingresses'[r] = ingresses[r]]_vars

\* C40: every orchestrator object created for a sandbox (workload, service,
\* ingress) is deleted in the end once the sandbox stays unused past the reaper
\* thresholds, also when the store is lost while the record is paused. Objects
\* out of reach are never deleted (OutOfReachStays), so as long as no call of
\* the orchestrator has failed, what is left of a sandbox has to be in reach.
C40_SandboxObjectsStayInReach ==
    \A r \in RuntimeIDs : (faults = 0 /\ SomethingLeft(r)) => InReach(r)

====
